---- MODULE Spec2Model ----
(***************************************************************************)
(* A model of the voice chat client's streaming response pipeline.         *)
(*                                                                         *)
(*   Turn Controller   useConversation   (bilingual hook and retry hook)   *)
(*   Generator Client  generateGeminiResponse / cancelActiveRequest        *)
(*   Recognizer        useSpeechRecognition                                *)
(*                                                                         *)
(* JavaScript runs one task at a time: every action below is one task (a   *)
(* call made by the application, a promise continuation, a timer), run to  *)
(* its next await.  A continuation of a promise rejected by abort() is a   *)
(* microtask: it runs before any later timer or network event, but after   *)
(* the rest of the synchronous code that called abort().                   *)
(***************************************************************************)
EXTENDS Integers, Sequences, FiniteSets, TLC

\* ---------------------------------------------------------------- bounds
\* generateGeminiResponse invocations per run
MaxRequests == 3
\* words of a decoded reply
MaxWords == 2
\* results carried by one recognition result event
MaxResults == 2
\* engine instances created per run
MaxEngines == 2
\* chunks enqueued by speak per run
MaxChunks == 4
\* words of a reply that is re-segmented by word windows
MaxReplyWords == 4
\* characters of a reply that is re-segmented by sentences
MaxReplyChars == 4
\* code points of a fragment that is tagged with its language
MaxFragmentLen == 3
\* utterances appended to History in a row
MaxPushes == 12
\* results in one result event of the confidence-gated recognizer
MaxGatedResults == 1
\* requestAccess and handleDeviceChange invocations in flight at once
MaxMicCalls == 2
\* pending microphone retry timers that retryTimeoutRef no longer names
MaxMicStale == 1
\* live microphone streams that streamRef no longer names
MaxMicLeaks == 1
\* code points of a text handed to the isHindiText utility
MaxDetectLen == 3
\* pieces of a text handed to the audio-bridge synthesizer
MaxBridgePieces == 5
\* speak calls of the audio-bridge synthesizer that pass its guard
MaxSpeaks == 1

\* ------------------------------------------------------ program constants
MAX_HISTORY_LENGTH == 10
MAX_RETRY_ATTEMPTS == 2
STREAM_CHUNK_SIZE == 10
wordsPerChunk == 3
MAX_RESTART_ATTEMPTS == 3
CONFIDENCE_THRESHOLD == 6   \* 0.6, confidences counted in tenths
MIC_MAX_RETRY_ATTEMPTS == 3 \* useMicrophone.ts: MAX_RETRY_ATTEMPTS
MIC_RETRY_DELAY == 2000     \* useMicrophone.ts: RETRY_DELAY
maxReconnectAttempts == 3
reconnectDelay == 1000
TICK == 50                  \* part_005: milliseconds per character; one tick
PHRASE_LIMIT == 30          \* part_005: characters of a phrase
SHORT_TEXT_LENGTH == 50     \* part_005: texts below it are sent whole
PHRASE_DELAY == 300         \* part_005: milliseconds between phrases
SETTLE_DELAY == 100         \* part_005: wait after synthesize

VARIABLES
  variant,          \* which useConversation hook is mounted
  hasKey,           \* GEMINI_API_KEY is set
  isLoading,        \* useState
  error,            \* useState
  processing,       \* processingRef.current
  chatHistory,      \* chatHistoryRef.current
  retryAttempts,    \* retryAttemptsRef.current
  retryTimeoutRef,  \* the request whose failure set the timer the ref names, or 0
  retryTimers,      \* pending retry timers, each named by the request that failed
  streamBuffer,     \* streamBufferRef.current: [chunks, words] held
  streamTimer,      \* the 300 ms flush timer is pending
  activeRequest,    \* the module-level AbortController, by request; 0 is null
  aborted,          \* requests whose controller's signal is aborted
  req,              \* every generateGeminiResponse invocation
  nextReq,          \* next request id
  nextInput,        \* next transcript id
  lastOp,           \* the task that ran last, with the callbacks it made:
                    \*   chunks onChunk calls, streamed onStream calls
  afterCancel,      \* cancelResponse ran and no transcript was accepted since
  supported,        \* window.webkitSpeechRecognition exists
  isListening,      \* useSpeechRecognition: useState
  transcript,       \* useState
  interimTranscript, \* useState
  recError,         \* useSpeechRecognition's error state
  recognizerRef,    \* recognizerRef.current, by engine instance; 0 is null
  isListeningRef,   \* isListeningRef.current
  lastProcessedResultRef, \* lastProcessedResultRef.current
  effectDeps,       \* the isListening the effect last ran with
  engine,           \* every engine instance's state
  nextEngine,       \* next engine instance id
  recOp,            \* the recognizer task that ran last: the trimmed texts of
                    \*   the final results it was handed, in order, the
                    \*   texts it passed to onTranscriptComplete, in order,
                    \*   and for an end event whether the engine ended by
                    \*   itself and whether the handler started it again
  afterStop,        \* stopListening ran and startListening has not since
  restartAttemptsRef, \* the restart-capable hook's restartAttemptsRef.current
  reconnectTimeoutRef, \* the timer named by reconnectTimeoutRef.current is pending
  staleTimers,      \* pending restart timers that ref no longer names
  connectionStatus, \* the restart-capable hook's useState
  errorRestarts,    \* start() calls made since startListening by the restart
                    \*   timer and by onend after an error, counted up to
                    \*   MAX_RESTART_ATTEMPTS + 1
  mic,              \* useMicrophone: its state and refs, the calls it has
                    \*   in flight and its environment
  synVariant,       \* which useSpeechSynthesis hook is mounted
  voiceRef,         \* a voice was found (the single-voice hook's voiceRef.current)
  utteranceQueueRef, \* utteranceQueueRef.current, chunks by number
  isSpeakingRef,    \* isSpeakingRef.current
  currentUtteranceRef, \* currentUtteranceRef.current, by chunk; 0 is null
  engineQueue,      \* window.speechSynthesis: utterances accepted and neither
                    \*   ended nor cancelled; the head is being spoken
  halted,           \* utterances removed by cancel() whose event is due
  handedLog,        \* the chunks passed to synth.speak without a throw, in order
  nextChunk,        \* next chunk number
  stoppedBelow,     \* nextChunk at the last stop()
  unvoiced,         \* the chunks the single-voice hook queued with no voice
  synOp,            \* the synthesizer task that ran last
  segVariant,       \* the re-segmentation run: "window" or "sentence"
  segReply,         \* the decoded reply of a request that is never cancelled
  segRest,          \* what the loop has still to go through
  segOut,           \* the fragments passed to onChunk, in order
  segPc,            \* "fetch", "pause" or "done"
  sink,             \* the bilingual hook's last onStream(text, language) call
  detected,         \* the last call of the isHindiText utility: its text
                    \*   and its result
  histPushed,       \* utterances appended to History since it was last
                    \*   empty, where each one's content is its number
  ws,               \* the WebSocketService singleton: its fields, and
                    \*   readyState: of the newest socket, "none" before one
                    \*   set: this.ws names the newest socket
                    \*   timer: delay of the pending reconnect timer, or 0
                    \*   sinceOpen: connect() calls by the timer since the
                    \*     last open
                    \*   disconnected: disconnect() has been called
                    \*   sent: the texts passed to ws.send, in order
                    \*   op: the socket task that ran last
  bridge            \* the audio-bridge synthesizer hook: its state and refs,
                    \*   timers: its pending timers, oldest first
                    \*   calls: speak calls that passed the guard
                    \*   stopMark: calls at the last stop()
                    \*   op: the hook task that ran last

turnVars == <<variant, hasKey, isLoading, error, processing, chatHistory,
              retryAttempts, retryTimeoutRef, retryTimers, streamBuffer,
              streamTimer, activeRequest, aborted, req, nextReq, nextInput,
              lastOp, afterCancel>>

recVars == <<supported, isListening, transcript, interimTranscript, recError,
             recognizerRef, isListeningRef, lastProcessedResultRef, effectDeps,
             engine, nextEngine, recOp, afterStop>>

rstVars == <<restartAttemptsRef, reconnectTimeoutRef, staleTimers,
             connectionStatus, errorRestarts>>

micVars == <<mic>>

\* the fields of mic
micMounted == mic.micMounted      \* useMicrophone is mounted
micEnv == mic.micEnv              \* what getUserMedia answers now: "ok" or
                                  \*   the failure
held == mic.held                  \* streamRef.current and the stream state
                                  \*   hold a live stream
micError == mic.micError          \* the error state
isAvailable == mic.isAvailable    \* useState
deviceName == mic.deviceName      \* the deviceName state is set
micAttempts == mic.micAttempts    \* retryAttemptsRef.current
micTimer == mic.micTimer          \* the timer named by retryTimeoutRef.current
                                  \*   is pending
micStale == mic.micStale          \* pending retry timers that ref no longer
                                  \*   names
gumPending == mic.gumPending      \* requestAccess calls awaiting getUserMedia
enumPending == mic.enumPending    \* requestAccess calls holding a new stream
                                  \*   and awaiting enumerateDevices
changePending == mic.changePending \* handleDeviceChange calls awaiting
                                  \*   enumerateDevices
leaked == mic.leaked              \* live streams that streamRef no longer names
micOp == mic.micOp                \* the microphone task that ran last: the
                                  \*   failure it handled, whether it scheduled
                                  \*   a retry and the delay, whether it
                                  \*   restored a stream after a track ended
reacquire == mic.reacquire        \* a track of the held stream ended and no
                                  \*   stream was acquired since

synVars == <<synVariant, voiceRef, utteranceQueueRef, isSpeakingRef,
             currentUtteranceRef, engineQueue, halted, handedLog, nextChunk,
             stoppedBelow, unvoiced, synOp>>

segVars == <<segVariant, segReply, segRest, segOut, segPc>>

tagVars == <<sink, detected>>

histVars == <<histPushed>>

brgVars == <<ws, bridge>>

vars == <<turnVars, recVars, rstVars, synVars, segVars, tagVars, histVars,
          micVars, brgVars>>

\* what the tasks of one component leave alone
exceptTurn == <<recVars, rstVars, synVars, segVars, tagVars, histVars,
              micVars, brgVars>>
exceptRec == <<turnVars, rstVars, synVars, segVars, tagVars, histVars,
              micVars, brgVars>>
exceptRst == <<turnVars, synVars, segVars, tagVars, histVars,
              micVars, brgVars>>
exceptMic == <<turnVars, recVars, rstVars, synVars, segVars, tagVars, histVars,
              brgVars>>
exceptBrg == <<turnVars, recVars, rstVars, synVars, segVars, tagVars, histVars,
              micVars>>
exceptSyn == <<turnVars, recVars, rstVars, segVars, tagVars, histVars,
              micVars, brgVars>>
exceptSeg == <<turnVars, recVars, rstVars, synVars, tagVars, histVars,
              micVars, brgVars>>
exceptTag == <<turnVars, recVars, rstVars, synVars, segVars, histVars,
              micVars, brgVars>>

Requests == 1..MaxRequests

Words == {"there", "fine."}

\* /[.!?|]$/.test(word)
EndsSentence(w) == w = "fine."

RECURSIVE SeqsUpTo(_)
SeqsUpTo(n) ==
  IF n = 0 THEN {<<>>}
  ELSE LET S == SeqsUpTo(n - 1)
       IN S \cup {Append(s, w) : s \in {t \in S : Len(t) = n - 1}, w \in Words}

\* a non-empty decoded text, split on whitespace
Replies == SeqsUpTo(MaxWords) \ {<<>>}

\* One invocation: words are the reply's words from the loop index on (the
\* loop reads no earlier word again), resp is whether currentResponse is
\* non-empty, called the callbacks invoked so far.
NoRequest == [pc |-> "idle", input |-> 0, retry |-> FALSE, words |-> <<>>,
              resp |-> FALSE, called |-> {}]

EmptyBuffer == [chunks |-> 0, words |-> 0]

Op(op, r, chunks, streamed) ==
  [op |-> op, req |-> r, chunks |-> chunks, streamed |-> streamed]

TurnInit(v) ==
  /\ variant = v
  /\ hasKey \in BOOLEAN
  /\ isLoading = FALSE
  /\ error = "null"
  /\ processing = FALSE
  /\ chatHistory = <<>>
  /\ retryAttempts = 0
  /\ retryTimeoutRef = 0
  /\ retryTimers = {}
  /\ streamBuffer = EmptyBuffer
  /\ streamTimer = FALSE
  /\ activeRequest = 0
  /\ aborted = {}
  /\ req = [r \in Requests |-> NoRequest]
  /\ nextReq = 1
  /\ nextInput = 1
  /\ lastOp = Op("init", 0, 0, 0)
  /\ afterCancel = FALSE

\* no utterance is counted
HistIdle == histPushed = 0

MicOp(op) ==
  [op |-> op, failure |-> "none", scheduled |-> FALSE, delay |-> 0,
   restored |-> FALSE]

\* the hook with no stream, no error and no timer
MicRecord(mounted, env, gum, op) ==
  [micMounted |-> mounted, micEnv |-> env, held |-> FALSE, micError |-> "null",
   isAvailable |-> TRUE, deviceName |-> FALSE, micAttempts |-> 0,
   micTimer |-> FALSE, micStale |-> 0, gumPending |-> gum, enumPending |-> 0,
   changePending |-> 0, leaked |-> 0, micOp |-> op, reacquire |-> FALSE]

\* useMicrophone is not mounted
MicIdle == mic = MicRecord(FALSE, "ok", 0, MicOp("init"))

\* the audio bridge is connected and its synthesizer is silent
BrgIdle ==
  /\ ws = [readyState |-> "open", set |-> TRUE, reconnectAttempts |-> 0,
           timer |-> 0, sinceOpen |-> 0, disconnected |-> FALSE,
           audioContext |-> FALSE, sent |-> <<>>,
           op |-> [op |-> "init", delay |-> 0]]
  /\ bridge = [isReady |-> TRUE, isSpeakingRef |-> FALSE,
               currentChunkRef |-> [spaced |-> FALSE, pieces |-> <<>>],
               timers |-> <<>>, calls |-> 0, stopMark |-> 0, op |-> "init"]

\* no re-segmentation run is followed
SegIdle ==
  /\ segVariant = "window"
  /\ segReply = <<>>
  /\ segRest = <<>>
  /\ segOut = <<>>
  /\ segPc = "done"

\* the synthesizer hook v after its mount effect
SynInit(v) ==
  /\ synVariant = v
  /\ voiceRef \in BOOLEAN
  /\ utteranceQueueRef = <<>>
  /\ isSpeakingRef = FALSE
  /\ currentUtteranceRef = 0
  /\ engineQueue = <<>>
  /\ halted = {}
  /\ handedLog = <<>>
  /\ nextChunk = 1
  /\ stoppedBelow = 0
  /\ unvoiced = {}
  /\ synOp = "init"

\* ------------------------------------------------------- Turn Controller

\* a trim to the last MAX_HISTORY_LENGTH entries
trimChatHistoryNewest(h) ==
  IF Len(h) > MAX_HISTORY_LENGTH
  THEN SubSeq(h, Len(h) - MAX_HISTORY_LENGTH + 1, Len(h))
  ELSE h

\* trimChatHistory: the first entry and the last MAX_HISTORY_LENGTH - 1
trimChatHistory(h) ==
  IF Len(h) > MAX_HISTORY_LENGTH
  THEN <<h[1]>> \o SubSeq(h, Len(h) - (MAX_HISTORY_LENGTH - 1) + 1, Len(h))
  ELSE h

\* chatHistoryRef.current.push(...), followed in the retry hook by the trim
PushHistory(h, role, content) ==
  LET h1 == Append(h, [role |-> role, content |-> content])
  IN IF variant = "retry" THEN trimChatHistory(h1) ELSE h1

\* streamBufferRef.current.split(/\s+/).length: chunks are appended with no
\* separator, so the last word of a chunk and the first of the next are one
SplitCount(buf) ==
  IF buf.chunks = 0 THEN 1 ELSE buf.words - (buf.chunks - 1)

\* the retry hook's onChunk, over the chunks one task delivers; st holds the
\* buffer, the flush timer and the onStream calls made
RECURSIVE StreamChunks(_, _)
StreamChunks(chunks, st) ==
  IF chunks = <<>> THEN st
  ELSE LET buf1 == [chunks |-> st.buf.chunks + 1,
                    words |-> st.buf.words + Len(Head(chunks))]
       IN IF SplitCount(buf1) >= STREAM_CHUNK_SIZE
          THEN StreamChunks(Tail(chunks),
                 [buf |-> EmptyBuffer, timer |-> FALSE, streamed |-> st.streamed + 1])
          ELSE StreamChunks(Tail(chunks),
                 [buf |-> buf1, timer |-> TRUE, streamed |-> st.streamed])

\* onChunk of either hook, over the chunks one task delivers
OnChunks(chunks) ==
  IF variant = "retry"
  THEN StreamChunks(chunks, [buf |-> streamBuffer, timer |-> streamTimer, streamed |-> 0])
  ELSE [buf |-> streamBuffer, timer |-> streamTimer, streamed |-> Len(chunks)]

\* handleError's retry test, one attempt too generous
MayRetryOffByOne(n) == n <= MAX_RETRY_ATTEMPTS

\* handleError's retry test
MayRetry(n) == n < MAX_RETRY_ATTEMPTS

\* an error callback that streams no apology
OnErrorSilent(op, r, msg, timers) ==
  /\ error' = msg
  /\ lastOp' = Op(op, r, 0, 0)
  /\ isLoading' = FALSE
  /\ processing' = FALSE
  /\ IF variant = "retry" /\ MayRetry(retryAttempts)
     THEN /\ retryAttempts' = retryAttempts + 1
          /\ retryTimeoutRef' = r
          /\ retryTimers' = timers \cup {r}
     ELSE /\ retryAttempts' = retryAttempts
          /\ retryTimeoutRef' = retryTimeoutRef
          /\ retryTimers' = timers

\* The error callback of either hook, in a task named op; timers is the set
\* of pending retry timers.  It streams one apology.
OnError(op, r, msg, timers) ==
  /\ error' = msg
  /\ lastOp' = Op(op, r, 0, 1)
  /\ isLoading' = FALSE
  /\ processing' = FALSE
  /\ IF variant = "retry" /\ MayRetry(retryAttempts)
     THEN /\ retryAttempts' = retryAttempts + 1
          /\ retryTimeoutRef' = r
          /\ retryTimers' = timers \cup {r}
     ELSE /\ retryAttempts' = retryAttempts
          /\ retryTimeoutRef' = retryTimeoutRef
          /\ retryTimers' = timers

\* The completion callback of either hook, after the task's n onChunk calls
\* left st = OnChunks(...) and currentResponse non-empty or not (resp).
OnComplete(r, st, resp, n) ==
  /\ lastOp' = Op("complete", r, n,
                  IF variant = "retry" /\ st.buf.chunks > 0
                  THEN st.streamed + 1 ELSE st.streamed)
  /\ streamBuffer' = IF variant = "retry" THEN EmptyBuffer ELSE st.buf
  /\ streamTimer' = st.timer
  /\ chatHistory' = IF resp THEN PushHistory(chatHistory, "assistant", r)
                    ELSE chatHistory
  /\ isLoading' = FALSE
  /\ processing' = FALSE
  /\ retryAttempts' = IF variant = "retry" THEN 0 ELSE retryAttempts

\* processUserInput without its guard
BusyNever == FALSE

\* the guard of processUserInput
Busy == processing

\* ------------------------------------------------------ Generator Client

\* !activeRequest?.signal.aborted: true when activeRequest is null
NotAborted == activeRequest = 0 \/ activeRequest \notin aborted

\* a catch block that reports every rejection
IsAbortErrorNever(name) == FALSE

\* a catch block that reports no rejection
IsAbortErrorAlways(name) == TRUE

\* the catch block's test for a request ended by abort()
IsAbortError(name) == name = "AbortError"

ErrorMessage(outcome) ==
  IF outcome = "http" THEN "Failed to get response from Gemini API: 500"
  ELSE "No response received from Gemini API"

\* The for loop over words with currentChunk cur and wordCount wc, run until
\* it awaits the pause after a sentence end or exits; go is the loop's abort
\* test, which no callback of the loop changes.  chunks are the onChunk calls
\* made, in order; words the words from the next loop index on.
RECURSIVE EmitLoop(_, _, _, _)
EmitLoop(words, cur, wc, go) ==
  IF ~(words # <<>> /\ go)
  THEN [chunks |-> <<>>, words |-> words, cur |-> cur, paused |-> FALSE]
  ELSE LET w == Head(words)
           cur2 == Append(cur, w)
           wc2 == wc + 1
       IN IF wc2 >= wordsPerChunk \/ EndsSentence(w) \/ Len(words) = 1
          THEN IF EndsSentence(w)
               THEN [chunks |-> <<cur2>>, words |-> Tail(words), cur |-> <<>>,
                     paused |-> TRUE]
               ELSE LET rest == EmitLoop(Tail(words), <<>>, 0, go)
                    IN [rest EXCEPT !.chunks = <<cur2>> \o rest.chunks]
          ELSE EmitLoop(Tail(words), cur2, wc2, go)

\* One task of request r's emission over the words still to go: the loop,
\* then, unless the loop awaits a pause, the trailing chunk, onComplete and
\* the finally block.
Emission(r, words) ==
  LET run == EmitLoop(words, <<>>, 0, NotAborted)
      tail == IF ~run.paused /\ run.cur # <<>> /\ NotAborted THEN <<run.cur>> ELSE <<>>
      chunks == run.chunks \o tail
      st == OnChunks(chunks)
      resp == req[r].resp \/ chunks # <<>>
      called == req[r].called \cup (IF chunks # <<>> THEN {"onChunk"} ELSE {})
  IN /\ IF run.paused
        THEN /\ req' = [req EXCEPT ![r] = [@ EXCEPT !.pc = "pause",
                                             !.words = run.words, !.resp = resp,
                                             !.called = called]]
             /\ lastOp' = Op("emit", r, Len(chunks), st.streamed)
             /\ streamBuffer' = st.buf
             /\ streamTimer' = st.timer
             /\ UNCHANGED <<chatHistory, isLoading, processing, retryAttempts,
                            activeRequest>>
        ELSE /\ req' = [req EXCEPT ![r] = [@ EXCEPT !.pc = "done", !.words = <<>>,
                                             !.resp = FALSE,
                                             !.called = called \cup {"onComplete"}]]
             /\ OnComplete(r, st, resp, Len(chunks))
             /\ activeRequest' = 0
     /\ UNCHANGED <<variant, hasKey, error, retryTimeoutRef, retryTimers, aborted,
                    nextReq, nextInput, afterCancel>>
     /\ UNCHANGED exceptTurn

\* a continuation of a promise rejected by abort() is waiting to run
MicrotaskPending == \E r \in Requests : req[r].pc = "fetch" /\ r \in aborted

\* An awaited network step of r rejects, or the decoded reply fails a check:
\* the catch block, then the finally block.
Fail(r, name, msg) ==
  /\ IF IsAbortError(name)
     THEN /\ req' = [req EXCEPT ![r] = [@ EXCEPT !.pc = "done"]]
          /\ lastOp' = Op("aborted", r, 0, 0)
          /\ UNCHANGED <<error, isLoading, processing, retryAttempts,
                         retryTimeoutRef, retryTimers>>
     ELSE /\ req' = [req EXCEPT ![r] = [@ EXCEPT !.pc = "done",
                                          !.called = @ \cup {"onError"}]]
          /\ OnError("error", r, msg, retryTimers)
  /\ activeRequest' = 0
  /\ UNCHANGED <<variant, hasKey, chatHistory, streamBuffer, streamTimer, aborted,
                 nextReq, nextInput, afterCancel>>
  /\ UNCHANGED exceptTurn

\* fetch() or response.json() of an aborted request rejects with AbortError
AbortSettle(r) ==
  /\ req[r].pc = "fetch"
  /\ r \in aborted
  /\ Fail(r, "AbortError", "The user aborted a request.")

\* the network call answers with a non-success status, or decodes to an
\* empty text
FetchFail(r, outcome) ==
  /\ req[r].pc = "fetch"
  /\ r \notin aborted
  /\ ~MicrotaskPending
  /\ Fail(r, "Error", ErrorMessage(outcome))

\* the network call answers with a non-empty text: the first emission task
FetchReply(r, words) ==
  /\ req[r].pc = "fetch"
  /\ r \notin aborted
  /\ ~MicrotaskPending
  /\ Emission(r, words)

\* the 100 ms pause after a sentence end is over
PauseEnd(r) ==
  /\ req[r].pc = "pause"
  /\ ~MicrotaskPending
  /\ Emission(r, req[r].words)

\* cancelActiveRequest
cancelActiveRequest ==
  /\ aborted' = IF activeRequest # 0 THEN aborted \cup {activeRequest} ELSE aborted
  /\ activeRequest' = 0

\* ----------------------------------------------- Turn Controller: tasks

\* processUserInput(input, onStream) called by via ("user" or "retry"), with
\* timers the retry timers pending besides the caller's own: dropped while
\* Busy; otherwise the turn starts and runs to the await of the network call
\* (or, with no API key, through the error callback and the finally block).
processUserInput(via, input, timers) ==
  IF Busy
  THEN /\ lastOp' = Op("dropped", 0, 0, 0)
       /\ retryTimers' = timers
       /\ UNCHANGED exceptTurn
       /\ UNCHANGED <<variant, hasKey, isLoading, error, processing, chatHistory,
                      retryAttempts, retryTimeoutRef, streamBuffer, streamTimer,
                      activeRequest, aborted, req, nextReq, nextInput,
                      afterCancel>>
  ELSE /\ nextReq <= MaxRequests
       /\ LET r == nextReq
          IN /\ chatHistory' = PushHistory(chatHistory, "user", input)
             /\ streamBuffer' = IF variant = "retry" THEN EmptyBuffer ELSE streamBuffer
             /\ IF hasKey
                THEN /\ isLoading' = TRUE
                     /\ error' = "null"
                     /\ processing' = TRUE
                     /\ aborted' = IF activeRequest # 0
                                   THEN aborted \cup {activeRequest} ELSE aborted
                     /\ activeRequest' = r
                     /\ req' = [req EXCEPT ![r] = [NoRequest EXCEPT !.pc = "fetch",
                                  !.input = input, !.retry = (via = "retry")]]
                     /\ retryTimers' = timers
                     /\ lastOp' = Op("accepted", r, 0, 0)
                     /\ UNCHANGED <<retryAttempts, retryTimeoutRef>>
                ELSE /\ OnError("accepted", r, "Gemini API key not found", timers)
                     /\ activeRequest' = 0
                     /\ req' = [req EXCEPT ![r] = [NoRequest EXCEPT !.pc = "done",
                                  !.input = input, !.retry = (via = "retry"),
                                  !.called = {"onError"}]]
                     /\ UNCHANGED aborted
       /\ nextReq' = nextReq + 1
       /\ nextInput' = IF via = "user" THEN nextInput + 1 ELSE nextInput
       /\ afterCancel' = FALSE
       /\ UNCHANGED <<variant, hasKey, streamTimer>>
       /\ UNCHANGED exceptTurn

\* the application hands over a finalized transcript
UserInput ==
  /\ nextInput <= MaxRequests
  /\ processUserInput("user", nextInput, retryTimers)

\* the retry timer set by the failure of request t fires
RetryTimerFire(t) ==
  /\ t \in retryTimers
  /\ ~MicrotaskPending
  /\ processUserInput("retry", req[t].input, retryTimers \ {t})

\* the retry hook's 300 ms flush timer fires
StreamTimerFire ==
  /\ streamTimer
  /\ ~MicrotaskPending
  /\ streamTimer' = FALSE
  /\ lastOp' = Op("flush", 0, 0, IF streamBuffer.chunks > 0 THEN 1 ELSE 0)
  /\ streamBuffer' = EmptyBuffer
  /\ UNCHANGED <<variant, hasKey, isLoading, error, processing, chatHistory,
                 retryAttempts, retryTimeoutRef, retryTimers, activeRequest,
                 aborted, req, nextReq, nextInput, afterCancel>>
  /\ UNCHANGED exceptTurn

\* cancelResponse of either hook
cancelResponse ==
  /\ cancelActiveRequest
  /\ isLoading' = FALSE
  /\ processing' = FALSE
  /\ IF variant = "retry"
     THEN /\ retryTimers' = retryTimers \ {retryTimeoutRef}
          /\ streamTimer' = FALSE
          /\ retryAttempts' = 0
          /\ streamBuffer' = EmptyBuffer
     ELSE UNCHANGED <<retryTimers, streamTimer, retryAttempts, streamBuffer>>
  /\ afterCancel' = TRUE
  /\ lastOp' = Op("cancel", 0, 0, 0)
  /\ UNCHANGED <<variant, hasKey, error, chatHistory, retryTimeoutRef, req,
                 nextReq, nextInput>>
  /\ UNCHANGED exceptTurn

Outcomes == {"http", "empty"}

\* the generator client under either hook
GeneratorNext ==
  \/ \E r \in Requests : AbortSettle(r)
  \/ \E r \in Requests, o \in Outcomes : FetchFail(r, o)
  \/ \E r \in Requests, w \in Replies : FetchReply(r, w)
  \/ \E r \in Requests : PauseEnd(r)

\* ------------------------------------------------------------ Recognizer

Engines == 1..MaxEngines

\* transcripts the engine reports as final, as sequences of characters
Texts == {<<"a">>, <<"b">>, <<" ">>}

\* transcripts the engine reports as interim
InterimTexts == {<<"a">>}

\* String.prototype.trim
RECURSIVE trim(_)
trim(t) ==
  IF t = <<>> THEN t
  ELSE IF Head(t) = " " THEN trim(Tail(t))
  ELSE IF t[Len(t)] = " " THEN trim(SubSeq(t, 1, Len(t) - 1))
  ELSE t

\* one SpeechRecognitionResult: isFinal and result[0].transcript
Results ==
  {[isFinal |-> TRUE, transcript |-> t] : t \in Texts}
    \cup {[isFinal |-> FALSE, transcript |-> t] : t \in InterimTexts}

RECURSIVE ResultListsOf(_)
ResultListsOf(n) ==
  IF n = 0 THEN {<<>>}
  ELSE {Append(l, x) : l \in ResultListsOf(n - 1), x \in Results}

\* event.results of one result event: the final results returned so far,
\* followed by the interim ones
ResultLists ==
  {l \in UNION {ResultListsOf(n) : n \in 1..MaxResults} :
     \A i \in 1..(Len(l) - 1) : l[i + 1].isFinal => l[i].isFinal}

RecOp(op, finals, fired) ==
  [op |-> op, finals |-> finals, fired |-> fired, natural |-> FALSE,
   started |-> FALSE]

\* the refs and state the restart-capable hook adds
RestartInit ==
  /\ restartAttemptsRef = 0
  /\ reconnectTimeoutRef = FALSE
  /\ staleTimers = 0
  /\ connectionStatus = "disconnected"
  /\ errorRestarts = 0

RecInit ==
  /\ RestartInit
  /\ isListening = FALSE
  /\ transcript = <<>>
  /\ interimTranscript = <<>>
  /\ recError = "null"
  /\ recognizerRef = 0
  /\ isListeningRef = FALSE
  /\ lastProcessedResultRef = <<>>
  /\ effectDeps = FALSE
  /\ engine = [e \in Engines |-> "none"]
  /\ nextEngine = 1
  /\ recOp = RecOp("init", <<>>, <<>>)
  /\ afterStop = FALSE

\* onresult's test of a final result, without the comparison
IsNewResultAlways(t, last) == t # <<>>

\* onresult: transcript && transcript !== lastProcessedResultRef.current
IsNewResult(t, last) == t # <<>> /\ t # last

\* onresult's loop over event.results; st holds lastProcessedResultRef.current,
\* finalTranscript, currentInterim and the onTranscriptComplete calls made
RECURSIVE OnResult(_, _)
OnResult(results, st) ==
  IF results = <<>> THEN st
  ELSE LET result == Head(results)
           t == trim(result.transcript)
       IN IF result.isFinal
          THEN IF IsNewResult(t, st.last)
               THEN OnResult(Tail(results),
                      [st EXCEPT !.last = t, !.final = t, !.fired = Append(@, t)])
               ELSE OnResult(Tail(results), st)
          ELSE OnResult(Tail(results), [st EXCEPT !.interim = result.transcript])

\* the trimmed texts of the final results of an event, in order
RECURSIVE Finals(_)
Finals(results) ==
  IF results = <<>> THEN <<>>
  ELSE IF Head(results).isFinal
       THEN <<trim(Head(results).transcript)>> \o Finals(Tail(results))
       ELSE Finals(Tail(results))

\* if (recognizerRef.current) recognizerRef.current.abort(): a running engine
\* stops and will deliver its end event
AbortRef ==
  IF recognizerRef # 0 /\ engine[recognizerRef] = "running"
  THEN [engine EXCEPT ![recognizerRef] = "ending"]
  ELSE engine

\* resetTranscript
resetTranscript ==
  /\ transcript' = <<>>
  /\ interimTranscript' = <<>>
  /\ lastProcessedResultRef' = <<>>
  /\ recOp' = RecOp("reset", <<>>, <<>>)
  /\ UNCHANGED <<supported, isListening, recError, recognizerRef, isListeningRef,
                 effectDeps, engine, nextEngine, afterStop>>
  /\ UNCHANGED exceptRec

\* startListening; setupRecognizer throws where the browser has no engine
startListening ==
  /\ supported => nextEngine <= MaxEngines
  /\ transcript' = <<>>
  /\ interimTranscript' = <<>>
  /\ lastProcessedResultRef' = <<>>
  /\ IF supported
     THEN /\ recError' = "null"
          /\ isListening' = TRUE
          /\ engine' = [AbortRef EXCEPT ![nextEngine] = "running"]
          /\ recognizerRef' = nextEngine
          /\ nextEngine' = nextEngine + 1
     ELSE /\ recError' = "Speech recognition is not supported in this browser"
          /\ isListening' = FALSE
          /\ engine' = AbortRef
          /\ recognizerRef' = 0
          /\ nextEngine' = nextEngine
  /\ recOp' = RecOp("start", <<>>, <<>>)
  /\ afterStop' = FALSE
  /\ UNCHANGED <<supported, isListeningRef, effectDeps>>
  /\ UNCHANGED exceptRec

\* stopListening
stopListening ==
  /\ isListening' = FALSE
  /\ engine' = AbortRef
  /\ recognizerRef' = 0
  /\ interimTranscript' = <<>>
  /\ recOp' = RecOp("stop", <<>>, <<>>)
  /\ afterStop' = TRUE
  /\ UNCHANGED <<supported, transcript, recError, isListeningRef,
                 lastProcessedResultRef, effectDeps, nextEngine>>
  /\ UNCHANGED exceptRec

\* useEffect([isListening]) after a render in which isListening changed: the
\* cleanup of the previous run, then the effect body
EffectRun ==
  /\ effectDeps # isListening
  /\ engine' = AbortRef
  /\ recognizerRef' = 0
  /\ isListeningRef' = isListening
  /\ effectDeps' = isListening
  /\ recOp' = RecOp("effect", <<>>, <<>>)
  /\ UNCHANGED <<supported, isListening, transcript, interimTranscript, recError,
                 lastProcessedResultRef, nextEngine, afterStop>>
  /\ UNCHANGED exceptRec

\* recognizer.onresult of a running engine; the handlers of all instances
\* share the refs, and finalTranscript is empty between events
ResultEvent(results) ==
  /\ \E e \in Engines : engine[e] = "running"
  /\ LET st == OnResult(results, [last |-> lastProcessedResultRef, final |-> <<>>,
                                  interim |-> <<>>, fired |-> <<>>])
     IN /\ lastProcessedResultRef' = st.last
        /\ transcript' = IF st.final # <<>> THEN st.final ELSE transcript
        /\ interimTranscript' = st.interim
        /\ recOp' = RecOp("result", Finals(results), st.fired)
  /\ UNCHANGED <<supported, isListening, recError, recognizerRef, isListeningRef,
                 effectDeps, engine, nextEngine, afterStop>>
  /\ UNCHANGED exceptRec

\* recognizer.onend of engine e, after a natural end ("running"), an abort
\* ("ending") or an error ("failed")
EndEvent(e) ==
  /\ engine[e] \in {"running", "ending", "failed"}
  /\ engine' = [engine EXCEPT ![e] = IF isListeningRef THEN "running" ELSE "ended"]
  /\ recOp' = [RecOp("end", <<>>, <<>>) EXCEPT !.natural = (engine[e] = "running"),
                                                !.started = isListeningRef]
  /\ UNCHANGED <<supported, isListening, transcript, interimTranscript, recError,
                 recognizerRef, isListeningRef, lastProcessedResultRef, effectDeps,
                 nextEngine, afterStop>>
  /\ UNCHANGED exceptRec

\* recognizer.onerror of engine e; the engine ends after an error
ErrorEvent(e) ==
  /\ engine[e] = "running"
  /\ recError' = "network"
  /\ isListening' = FALSE
  /\ engine' = [AbortRef EXCEPT ![e] = "failed"]
  /\ recognizerRef' = 0
  /\ recOp' = RecOp("error", <<>>, <<>>)
  /\ UNCHANGED <<supported, transcript, interimTranscript, isListeningRef,
                 lastProcessedResultRef, effectDeps, nextEngine, afterStop>>
  /\ UNCHANGED exceptRec

\* ------------------------------------------ Restart-capable Recognizer

\* SpeechRecognition.start() throws on an instance that was started and whose
\* end event has not fired yet
StartThrows(eng, e) == eng[e] \in {"running", "ending", "failed"}

CountRestart(n) == IF n > MAX_RESTART_ATTEMPTS THEN n ELSE n + 1

\* what the handlers of the restart-capable hook read and write
Hook ==
  [error |-> recError, status |-> connectionStatus, listening |-> isListening,
   attempts |-> restartAttemptsRef, pending |-> reconnectTimeoutRef,
   stale |-> staleTimers, engine |-> engine, ref |-> recognizerRef]

Commit(st) ==
  /\ recError' = st.error
  /\ connectionStatus' = st.status
  /\ isListening' = st.listening
  /\ restartAttemptsRef' = st.attempts
  /\ reconnectTimeoutRef' = st.pending
  /\ staleTimers' = st.stale
  /\ engine' = st.engine
  /\ recognizerRef' = st.ref

\* handleRecognitionError: a restart timer while the attempts last, then stop
handleRecognitionError(errorMessage, st) ==
  IF isListeningRef /\ st.attempts < MAX_RESTART_ATTEMPTS
  THEN [st EXCEPT !.error = errorMessage, !.status = "error",
                  !.attempts = @ + 1, !.pending = TRUE,
                  !.stale = IF st.pending THEN @ + 1 ELSE @]
  ELSE [st EXCEPT !.error = errorMessage, !.status = "error", !.listening = FALSE,
                  !.engine = IF st.ref # 0 /\ st.engine[st.ref] = "running"
                             THEN [st.engine EXCEPT ![st.ref] = "ending"]
                             ELSE st.engine,
                  !.ref = 0]

\* startListening of the restart-capable hook
startListeningRestart ==
  /\ supported => nextEngine <= MaxEngines
  /\ transcript' = <<>>
  /\ interimTranscript' = <<>>
  /\ lastProcessedResultRef' = <<>>
  /\ LET st == [Hook EXCEPT !.error = "null", !.listening = TRUE, !.attempts = 0,
                            !.engine = AbortRef, !.ref = 0]
     IN IF supported
        THEN /\ Commit([st EXCEPT !.engine = [AbortRef EXCEPT ![nextEngine] = "running"],
                                  !.ref = nextEngine])
             /\ nextEngine' = nextEngine + 1
        ELSE /\ Commit([handleRecognitionError(
                          "Speech recognition is not supported in this browser", st)
                          EXCEPT !.listening = FALSE])
             /\ nextEngine' = nextEngine
  /\ errorRestarts' = 0
  /\ recOp' = RecOp("start", <<>>, <<>>)
  /\ afterStop' = FALSE
  /\ UNCHANGED <<supported, isListeningRef, effectDeps>>
  /\ UNCHANGED exceptRst

\* stopListening of the restart-capable hook
stopListeningRestart ==
  /\ Commit([Hook EXCEPT !.listening = FALSE, !.engine = AbortRef, !.ref = 0,
                         !.status = "disconnected"])
  /\ interimTranscript' = <<>>
  /\ recOp' = RecOp("stop", <<>>, <<>>)
  /\ afterStop' = TRUE
  /\ UNCHANGED <<supported, transcript, isListeningRef, lastProcessedResultRef,
                 effectDeps, nextEngine, errorRestarts>>
  /\ UNCHANGED exceptRst

\* useEffect([isListening]) of the restart-capable hook: the cleanup also
\* clears the timer reconnectTimeoutRef.current names
EffectRunRestart ==
  /\ effectDeps # isListening
  /\ Commit([Hook EXCEPT !.engine = AbortRef, !.ref = 0, !.pending = FALSE])
  /\ isListeningRef' = isListening
  /\ effectDeps' = isListening
  /\ recOp' = RecOp("effect", <<>>, <<>>)
  /\ UNCHANGED <<supported, transcript, interimTranscript, lastProcessedResultRef,
                 nextEngine, afterStop, errorRestarts>>
  /\ UNCHANGED exceptRst

\* recognizer.onend of engine e in the restart-capable hook; start() on an
\* instance whose end event has fired does not throw
EndEventRestart(e) ==
  /\ engine[e] \in {"running", "ending", "failed"}
  /\ IF isListeningRef
     THEN /\ Commit([Hook EXCEPT !.engine = [engine EXCEPT ![e] = "running"]])
          /\ errorRestarts' = IF engine[e] = "failed"
                              THEN CountRestart(errorRestarts)
                              ELSE errorRestarts
     ELSE /\ Commit([Hook EXCEPT !.engine = [engine EXCEPT ![e] = "ended"],
                                 !.status = "disconnected"])
          /\ errorRestarts' = errorRestarts
  /\ recOp' = [RecOp("end", <<>>, <<>>) EXCEPT !.natural = (engine[e] = "running"),
                                                !.started = isListeningRef]
  /\ UNCHANGED <<supported, transcript, interimTranscript, isListeningRef,
                 lastProcessedResultRef, effectDeps, nextEngine, afterStop>>
  /\ UNCHANGED exceptRst

\* recognizer.onerror of engine e in the restart-capable hook
ErrorEventRestart(e) ==
  /\ engine[e] = "running"
  /\ Commit(handleRecognitionError("network",
              [Hook EXCEPT !.engine = [engine EXCEPT ![e] = "failed"]]))
  /\ recOp' = RecOp("error", <<>>, <<>>)
  /\ UNCHANGED <<supported, transcript, interimTranscript, isListeningRef,
                 lastProcessedResultRef, effectDeps, nextEngine, afterStop,
                 errorRestarts>>
  /\ UNCHANGED exceptRst

\* the callback of a restart timer: the one reconnectTimeoutRef.current
\* names, or an older one
ReconnectTimer(older) ==
  /\ IF older THEN staleTimers > 0 ELSE reconnectTimeoutRef
  /\ LET st == IF older THEN [Hook EXCEPT !.stale = @ - 1]
                        ELSE [Hook EXCEPT !.pending = FALSE]
     IN IF recognizerRef = 0
        THEN /\ Commit(st)
             /\ errorRestarts' = errorRestarts
        ELSE /\ errorRestarts' = CountRestart(errorRestarts)
             /\ IF StartThrows(engine, recognizerRef)
                THEN Commit(handleRecognitionError("Failed to restart recognition", st))
                ELSE Commit([st EXCEPT !.engine = [engine EXCEPT ![recognizerRef] = "running"],
                                       !.status = "connected"])
  /\ recOp' = RecOp("timer", <<>>, <<>>)
  /\ UNCHANGED <<supported, transcript, interimTranscript, isListeningRef,
                 lastProcessedResultRef, effectDeps, nextEngine, afterStop>>
  /\ UNCHANGED exceptRst

\* result[0].confidence of a final result, in tenths
Confidences == {6, 7}

\* one SpeechRecognitionResult of the restart-capable hook: isFinal,
\* result[0].transcript and result[0].confidence
GatedResults ==
  {[isFinal |-> TRUE, transcript |-> t, confidence |-> c] :
     t \in Texts, c \in Confidences}
    \cup {[isFinal |-> FALSE, transcript |-> t, confidence |-> 0] : t \in InterimTexts}

RECURSIVE GatedListsOf(_)
GatedListsOf(n) ==
  IF n = 0 THEN {<<>>}
  ELSE {Append(l, x) : l \in GatedListsOf(n - 1), x \in GatedResults}

GatedLists ==
  {l \in UNION {GatedListsOf(n) : n \in 1..MaxGatedResults} :
     \A i \in 1..(Len(l) - 1) : l[i + 1].isFinal => l[i].isFinal}

\* the confidence test with the threshold itself let through
AboveThresholdOrAt(c) == c >= CONFIDENCE_THRESHOLD

\* result[0].confidence > CONFIDENCE_THRESHOLD
AboveThreshold(c) == c > CONFIDENCE_THRESHOLD

\* onresult's loop of the restart-capable hook
RECURSIVE OnGatedResult(_, _)
OnGatedResult(results, st) ==
  IF results = <<>> THEN st
  ELSE LET result == Head(results)
           t == trim(result.transcript)
       IN IF result.isFinal
          THEN IF IsNewResult(t, st.last)
               THEN OnGatedResult(Tail(results),
                      [st EXCEPT !.last = t, !.final = t,
                                 !.fired = IF AboveThreshold(result.confidence)
                                           THEN Append(@, t) ELSE @])
               ELSE OnGatedResult(Tail(results), st)
          ELSE OnGatedResult(Tail(results), [st EXCEPT !.interim = t])

\* the final results of an event, in order: trimmed text and confidence
RECURSIVE GatedFinals(_)
GatedFinals(results) ==
  IF results = <<>> THEN <<>>
  ELSE IF Head(results).isFinal
       THEN <<[text |-> trim(Head(results).transcript),
               confidence |-> Head(results).confidence]>>
              \o GatedFinals(Tail(results))
       ELSE GatedFinals(Tail(results))

\* recognizer.onresult of a running engine of the restart-capable hook
ResultEventRestart(results) ==
  /\ \E e \in Engines : engine[e] = "running"
  /\ LET st == OnGatedResult(results, [last |-> lastProcessedResultRef,
                                       final |-> <<>>, interim |-> <<>>,
                                       fired |-> <<>>])
     IN /\ lastProcessedResultRef' = st.last
        /\ transcript' = IF st.final # <<>> THEN st.final ELSE transcript
        /\ interimTranscript' = st.interim
        /\ recOp' = RecOp("result", GatedFinals(results), st.fired)
  /\ connectionStatus' = "connected"
  /\ UNCHANGED <<supported, isListening, recError, recognizerRef, isListeningRef,
                 effectDeps, engine, nextEngine, afterStop, restartAttemptsRef,
                 reconnectTimeoutRef, staleTimers, errorRestarts>>
  /\ UNCHANGED exceptRst

\* ------------------------------------------------------------- Capture

\* the ways getUserMedia fails: NotAllowedError ("Permission denied"),
\* NotFoundError ("Requested device not found"), NotReadableError
Failures == {"denied", "notfound", "busy"}

MicEnvs == {"ok"} \cup Failures

MicCalls == gumPending + enumPending + changePending

\* cleanup: the held stream's tracks are stopped, the timer that
\* retryTimeoutRef.current names is cleared
cleanup(st) ==
  [st EXCEPT !.held = FALSE, !.micTimer = FALSE, !.deviceName = FALSE]

\* a requestAccess that only cleans up
requestAccessNever(st) ==
  [st EXCEPT !.held = FALSE, !.micTimer = FALSE, !.deviceName = FALSE,
             !.micError = "null"]

\* requestAccess up to its await of getUserMedia
requestAccess(st) ==
  [cleanup(st) EXCEPT !.micError = "null", !.gumPending = @ + 1]

\* the catch block's message for a failure
MicErrorMessage(failure) ==
  IF failure = "denied" THEN "Please allow microphone access to use this feature"
  ELSE IF failure = "notfound"
       THEN "No microphone found. Please connect a microphone and try again"
       ELSE "Could not start audio source"

\* the retry test with one attempt more
MicMayRetryOffByOne(n) == n <= MIC_MAX_RETRY_ATTEMPTS

\* retryAttemptsRef.current < MAX_RETRY_ATTEMPTS
MicMayRetry(n) == n < MIC_MAX_RETRY_ATTEMPTS

\* requestAccess's catch block
MicCatch(st, failure) ==
  LET st1 == [st EXCEPT !.micError = MicErrorMessage(failure),
                        !.isAvailable = IF failure = "notfound" THEN FALSE ELSE @,
                        !.held = FALSE,
                        !.leaked = IF st.held THEN @ + 1 ELSE @]
  IN IF MicMayRetry(st.micAttempts)
     THEN [st1 EXCEPT !.micAttempts = @ + 1, !.micTimer = TRUE,
                      !.micStale = IF st.micTimer THEN @ + 1 ELSE @]
     ELSE st1

\* the hook as its mount effect leaves it: requestAccess is awaiting
\* getUserMedia
MicInit == \E env \in MicEnvs : mic = MicRecord(TRUE, env, 1, MicOp("mount"))

\* the application calls requestAccess
UserRequestAccess ==
  /\ micMounted
  /\ MicCalls < MaxMicCalls
  /\ mic' = [requestAccess(mic) EXCEPT !.micOp = MicOp("request")]
  /\ UNCHANGED exceptMic

\* getUserMedia settles: with a stream, and requestAccess awaits
\* enumerateDevices, or with the failure the environment gives, and the catch
\* block runs
GetUserMediaSettles ==
  /\ gumPending > 0
  /\ IF micEnv = "ok"
     THEN mic' = [mic EXCEPT !.gumPending = @ - 1, !.enumPending = @ + 1,
                             !.micOp = MicOp("granted")]
     ELSE LET st == MicCatch([mic EXCEPT !.gumPending = @ - 1], micEnv)
          IN /\ st.micStale <= MaxMicStale
             /\ st.leaked <= MaxMicLeaks
             /\ mic' = [st EXCEPT !.micOp =
                          [MicOp("failed") EXCEPT
                             !.failure = micEnv,
                             !.scheduled = MicMayRetry(micAttempts),
                             !.delay = IF MicMayRetry(micAttempts)
                                       THEN MIC_RETRY_DELAY ELSE 0]]
  /\ UNCHANGED exceptMic

\* enumerateDevices of a requestAccess call settles: the new stream is held
\* and exposed, the counter reset, the onended listeners attached
Acquired ==
  /\ enumPending > 0
  /\ held => leaked < MaxMicLeaks
  /\ mic' = [mic EXCEPT !.deviceName = TRUE, !.held = TRUE,
                        !.isAvailable = TRUE, !.micAttempts = 0,
                        !.leaked = IF held THEN @ + 1 ELSE @,
                        !.enumPending = @ - 1,
                        !.micOp = [MicOp("acquired") EXCEPT
                                     !.restored = reacquire],
                        !.reacquire = FALSE]
  /\ UNCHANGED exceptMic

\* track.onended of the held stream, or of one streamRef no longer names:
\* cleanup, then requestAccess
TrackEnded(ofHeld) ==
  /\ IF ofHeld THEN held ELSE leaked > 0
  /\ MicCalls < MaxMicCalls
  /\ mic' = [requestAccess([mic EXCEPT !.leaked = IF ofHeld THEN @ ELSE @ - 1])
               EXCEPT !.micOp = MicOp(IF ofHeld THEN "ended" ELSE "ended-other"),
                      !.reacquire = (ofHeld \/ @)]
  /\ UNCHANGED exceptMic

\* a retry timer fires: requestAccess
MicRetryTimerFire(older) ==
  /\ IF older THEN micStale > 0 ELSE micTimer
  /\ MicCalls < MaxMicCalls
  /\ mic' = [requestAccess(IF older THEN [mic EXCEPT !.micStale = @ - 1]
                                    ELSE [mic EXCEPT !.micTimer = FALSE])
               EXCEPT !.micOp = MicOp("retry")]
  /\ UNCHANGED exceptMic

\* the environment changes what getUserMedia answers; a device plugged in or
\* out raises devicechange, and handleDeviceChange awaits enumerateDevices
EnvChange(env) ==
  /\ env # micEnv
  /\ LET raised == micMounted /\ ((env = "notfound") # (micEnv = "notfound"))
     IN /\ raised => MicCalls < MaxMicCalls
        /\ mic' = [mic EXCEPT !.micEnv = env,
                              !.changePending = IF raised THEN @ + 1 ELSE @,
                              !.micOp = MicOp("env")]
  /\ UNCHANGED exceptMic

\* handleDeviceChange after enumerateDevices settled
DeviceChangeSettles ==
  /\ changePending > 0
  /\ LET hasAudioDevice == micEnv # "notfound"
         st == [mic EXCEPT !.isAvailable = hasAudioDevice,
                           !.changePending = @ - 1,
                           !.micOp = MicOp("devicechange")]
     IN mic' = IF hasAudioDevice /\ ~held THEN requestAccess(st) ELSE st
  /\ UNCHANGED exceptMic

\* the cleanup of the mount effect: cleanup, and the devicechange listener
\* is removed
MicUnmount ==
  /\ micMounted
  /\ mic' = [cleanup(mic) EXCEPT !.micMounted = FALSE,
                                 !.micOp = MicOp("unmount")]
  /\ UNCHANGED exceptMic

\* ----------------------------------------------------------- Audio Bridge
\* websocketService.ts (the socket client) and the synthesizer hook that
\* sends its phrases over it (part_005). Time is counted in ticks of 50 ms.

\* the pieces text.split(...) makes of a text: words, and the pause points
\* between them, which the capture group keeps as pieces of their own
BridgePieces == {"a", "b", ","}

\* characters of a piece
PieceLen(c) == IF c = "a" THEN 10 ELSE IF c = "b" THEN 20 ELSE 1

RECURSIVE BridgeTextsOf(_)
BridgeTextsOf(n) ==
  IF n = 0 THEN {<<>>}
  ELSE LET shorter == BridgeTextsOf(n - 1)
       IN shorter \cup
          {Append(t, c) : t \in {s \in shorter : Len(s) = n - 1},
                          c \in IF n % 2 = 0 THEN {","} ELSE {"a", "b"}}

\* the texts handed to speak: words separated by pause points, written
\* without whitespace; <<>> is a blank text
BridgeTexts == BridgeTextsOf(MaxBridgePieces)

RECURSIVE SumLen(_)
SumLen(p) == IF p = <<>> THEN 0 ELSE PieceLen(Head(p)) + SumLen(Tail(p))

\* a text as speak was given it
Raw(t) == [spaced |-> FALSE, pieces |-> t]

\* pieces joined by single spaces; one piece alone has no space
Spaced(p) == [spaced |-> Len(p) > 1, pieces |-> p]

NoText == Raw(<<>>)

\* text.length
TextLength(x) ==
  SumLen(x.pieces) + (IF x.spaced THEN Len(x.pieces) - 1 ELSE 0)

\* the for loop of speak over the chunks left, with cur the current phrase
\* and out the phrases already scheduled
RECURSIVE PhraseLoop(_, _, _)
PhraseLoop(chunks, cur, out) ==
  IF chunks = <<>> THEN IF cur = <<>> THEN out ELSE Append(out, Spaced(cur))
  ELSE IF TextLength(Spaced(cur)) + PieceLen(Head(chunks)) > PHRASE_LIMIT
       THEN PhraseLoop(Tail(chunks), <<Head(chunks)>>, Append(out, Spaced(cur)))
       ELSE PhraseLoop(Tail(chunks), Append(cur, Head(chunks)), out)

\* the phrases speak schedules for a long text, in order
Phrases(t) == PhraseLoop(t, <<>>, <<>>)

\* speak takes the short path
IsShortText(t) == Len(t) = 1 \/ TextLength(Raw(t)) < SHORT_TEXT_LENGTH

\* Math.max(500, text.length * 50), in ticks
SpeechEstimate(x) ==
  IF TextLength(x) * 50 > 500 THEN TextLength(x) ELSE 500 \div TICK

\* this.ws?.readyState === WebSocket.OPEN
isConnected == ws.set /\ ws.readyState = "open"

WsOp(op) == [op |-> op, delay |-> 0]

\* handleReconnect going one attempt too far
WsMayReconnectOffByOne(n) == n <= maxReconnectAttempts

\* the guard of handleReconnect
WsMayReconnect(n) == n < maxReconnectAttempts

\* handleReconnect() on the service w
handleReconnect(w) ==
  IF WsMayReconnect(w.reconnectAttempts)
  THEN [w EXCEPT !.reconnectAttempts = @ + 1,
                 !.timer = reconnectDelay * (w.reconnectAttempts + 1)]
  ELSE w

\* the state after the module is loaded and the hook is mounted: the
\* constructor has called connect(), where new WebSocket(url) may have
\* thrown, and checkConnection has found the socket not open
BridgeInit ==
  /\ ws \in {[readyState |-> "connecting", set |-> TRUE, reconnectAttempts |-> 0,
              timer |-> 0, sinceOpen |-> 0, disconnected |-> FALSE,
              audioContext |-> FALSE, sent |-> <<>>, op |-> WsOp("init")],
             [readyState |-> "none", set |-> FALSE, reconnectAttempts |-> 1,
              timer |-> reconnectDelay, sinceOpen |-> 0, disconnected |-> FALSE,
              audioContext |-> FALSE, sent |-> <<>>, op |-> WsOp("init")]}
  /\ bridge = [isReady |-> FALSE, isSpeakingRef |-> FALSE,
               currentChunkRef |-> NoText, timers |-> <<>>, calls |-> 0,
               stopMark |-> 0, op |-> "init"]

\* ws.onopen
SocketOpen ==
  /\ ws.readyState = "connecting"
  /\ ws' = [ws EXCEPT !.readyState = "open", !.reconnectAttempts = 0,
                      !.sinceOpen = 0, !.op = WsOp("open")]
  /\ UNCHANGED bridge
  /\ UNCHANGED exceptBrg

\* ws.onclose: the socket fails to connect, is closed by the far end, or
\* was closed by disconnect()
SocketClose ==
  /\ ws.readyState \in {"connecting", "open", "closing"}
  /\ LET w == handleReconnect([ws EXCEPT !.readyState = "closed"])
     IN ws' = [w EXCEPT !.op = [op |-> "close", delay |-> w.timer]]
  /\ UNCHANGED bridge
  /\ UNCHANGED exceptBrg

\* the reconnect timer fires: connect(), where throws is whether
\* new WebSocket(url) throws
ReconnectTimerFire(throws) ==
  /\ ws.timer # 0
  /\ ws.sinceOpen < maxReconnectAttempts + 1
  /\ LET fired == [ws EXCEPT !.timer = 0, !.sinceOpen = @ + 1,
                             !.op = [op |-> "connect", delay |-> ws.timer]]
     IN ws' = IF throws THEN handleReconnect(fired)
              ELSE [fired EXCEPT !.readyState = "connecting", !.set = TRUE]
  /\ UNCHANGED bridge
  /\ UNCHANGED exceptBrg

\* websocketService.stop()
serviceStop(w) == [w EXCEPT !.audioContext = FALSE]

\* disconnect(): stop(), then this.ws.close() and this.ws = null
disconnect ==
  /\ ws' = [serviceStop(ws) EXCEPT
              !.readyState = IF ws.set /\ @ \in {"connecting", "open"}
                             THEN "closing" ELSE @,
              !.set = FALSE, !.disconnected = TRUE, !.op = WsOp("disconnect")]
  /\ UNCHANGED bridge
  /\ UNCHANGED exceptBrg

\* checkConnection, every READY_CHECK_INTERVAL
checkConnection ==
  /\ bridge' = [bridge EXCEPT !.isReady = isConnected, !.op = "check"]
  /\ UNCHANGED ws
  /\ UNCHANGED exceptBrg

\* the hook and the service a task works on
Bridge == [hook |-> bridge, service |-> ws]

BridgeCommit(st) ==
  /\ bridge' = st.hook
  /\ ws' = st.service

Timer(kind, left, call, x) ==
  [kind |-> kind, left |-> left, call |-> call, text |-> x]

\* what synthesizeChunk does once its guard is passed: with the socket
\* open, websocketService.synthesize sends and the 100 ms wait begins; with
\* the socket not open it throws, and the finally block sets the reset
\* timer at once
Synthesize(st, call, x) ==
  IF isConnected
  THEN [st EXCEPT !.hook.isSpeakingRef = TRUE, !.hook.currentChunkRef = x,
                  !.service.audioContext = TRUE,
                  !.service.sent = Append(@, [call |-> call, text |-> x]),
                  !.hook.timers = Append(@, Timer("wait", SETTLE_DELAY \div TICK,
                                                  call, x))]
  ELSE [st EXCEPT !.hook.isSpeakingRef = TRUE, !.hook.currentChunkRef = x,
                  !.hook.timers = Append(@, Timer("reset", SpeechEstimate(x),
                                                  call, x))]

\* synthesizeChunk(text) up to its first timer, as called by speak call
\* number call; its isReady is the one speak has tested
synthesizeChunk(st, call, x) ==
  IF x.pieces = <<>> \/ st.hook.isSpeakingRef THEN st
  ELSE Synthesize(st, call, x)

\* the timers speak sets for the phrases of a long text
PhraseTimers(t, call) ==
  [i \in 1..Len(Phrases(t)) |->
     Timer("phrase", (i - 1) * (PHRASE_DELAY \div TICK), call, Phrases(t)[i])]

\* speak(text)
bridgeSpeak(t) ==
  /\ bridge.calls < MaxSpeaks
  /\ IF t = <<>> \/ ~bridge.isReady
     THEN /\ bridge' = [bridge EXCEPT !.op = "skipped"]
          /\ UNCHANGED ws
     ELSE LET st == [Bridge EXCEPT !.hook.calls = @ + 1, !.hook.op = "speak"]
          IN IF IsShortText(t)
             THEN BridgeCommit(synthesizeChunk(st, st.hook.calls, Raw(t)))
             ELSE BridgeCommit([st EXCEPT
                    !.hook.timers = @ \o PhraseTimers(t, st.hook.calls)])
  /\ UNCHANGED exceptBrg

\* stop(): websocketService.stop() and the two refs
bridgeStop ==
  /\ ws' = serviceStop(ws)
  /\ bridge' = [bridge EXCEPT !.isSpeakingRef = FALSE, !.currentChunkRef = NoText,
                              !.stopMark = bridge.calls, !.op = "stop"]
  /\ UNCHANGED exceptBrg

\* 50 ms pass with no timer due
BridgeTick ==
  /\ bridge.timers # <<>>
  /\ \A i \in 1..Len(bridge.timers) : bridge.timers[i].left > 0
  /\ bridge' = [bridge EXCEPT
       !.timers = [i \in 1..Len(@) |-> [@[i] EXCEPT !.left = @ - 1]],
       !.op = "tick"]
  /\ UNCHANGED ws
  /\ UNCHANGED exceptBrg

\* a sequence without its i-th element
Without(s, i) == [j \in 1..(Len(s) - 1) |-> IF j < i THEN s[j] ELSE s[j + 1]]

\* the index of the timer that fires next: the oldest one that is due
DueIndex ==
  CHOOSE i \in 1..Len(bridge.timers) :
    /\ bridge.timers[i].left = 0
    /\ \A j \in 1..(i - 1) : bridge.timers[j].left > 0

\* the oldest timer that is due fires
BridgeTimerFire ==
  /\ \E i \in 1..Len(bridge.timers) : bridge.timers[i].left = 0
  /\ LET tm == bridge.timers[DueIndex]
         st == [Bridge EXCEPT !.hook.timers = Without(@, DueIndex),
                              !.hook.op = tm.kind]
     IN CASE tm.kind = "phrase" ->
               BridgeCommit(synthesizeChunk(st, tm.call, tm.text))
          [] tm.kind = "wait" ->
               BridgeCommit([st EXCEPT !.hook.timers =
                 Append(@, Timer("reset", SpeechEstimate(tm.text),
                                 tm.call, tm.text))])
          [] tm.kind = "reset" ->
               BridgeCommit(IF st.hook.currentChunkRef = tm.text
                            THEN [st EXCEPT !.hook.isSpeakingRef = FALSE,
                                            !.hook.currentChunkRef = NoText]
                            ELSE st)
  /\ UNCHANGED exceptBrg

\* ----------------------------------------------------------- Synthesizer

Chunks == 1..MaxChunks

\* the texts handed to speak, as sequences of characters
SpeakTexts == {<<" ">>, <<"a">>, <<"a", ".", "a">>, <<"a", ".", " ", "a">>,
               <<"a", "|", "a">>, <<"a", ".", " ">>}

\* the sentence ends of the replace pattern
IsTerminator(c) == c = "."

RECURSIVE SkipSpaces(_)
SkipSpaces(t) ==
  IF t # <<>> /\ Head(t) = " " THEN SkipSpaces(Tail(t)) ELSE t

\* text.replace(/([...])\s+/g, '$1|') with [...] the sentence ends
RECURSIVE MarkSentences(_)
MarkSentences(t) ==
  IF t = <<>> THEN <<>>
  ELSE IF IsTerminator(Head(t)) /\ Len(t) >= 2 /\ t[2] = " "
       THEN <<Head(t), "|">> \o MarkSentences(SkipSpaces(Tail(t)))
       ELSE <<Head(t)>> \o MarkSentences(Tail(t))

\* .split('|'), with cur the piece being read
RECURSIVE SplitBar(_, _)
SplitBar(t, cur) ==
  IF t = <<>> THEN <<cur>>
  ELSE IF Head(t) = "|" THEN <<cur>> \o SplitBar(Tail(t), <<>>)
       ELSE SplitBar(Tail(t), Append(cur, Head(t)))

\* .filter(chunk => chunk.trim()).map(chunk => chunk.trim())
RECURSIVE TrimmedPieces(_)
TrimmedPieces(pieces) ==
  IF pieces = <<>> THEN <<>>
  ELSE IF trim(Head(pieces)) = <<>> THEN TrimmedPieces(Tail(pieces))
       ELSE <<trim(Head(pieces))>> \o TrimmedPieces(Tail(pieces))

\* the chunks speak makes of a text
SpeechChunks(text) == TrimmedPieces(SplitBar(MarkSentences(text), <<>>))

\* processNextInQueue taking the newest item
NextItemLast(q) == q[Len(q)]

\* utteranceQueueRef.current.shift(): the item taken
NextItem(q) == Head(q)

\* stop() leaving the queue as it is
ClearedQueueKept(q) == q

\* utteranceQueueRef.current = []
ClearedQueue(q) == <<>>

\* processNextInQueue with queue q and speaking flag sp, with eng the
\* engine's queue; throws is whether synth.speak throws
ProcessNext(q, sp, eng, throws) ==
  IF sp \/ q = <<>> \/ (synVariant = "single" /\ ~voiceRef)
  THEN [queue |-> q, speaking |-> sp, changed |-> FALSE, cur |-> 0,
        eng |-> eng, handed |-> <<>>]
  ELSE IF throws
       THEN [queue |-> Tail(q), speaking |-> FALSE, changed |-> TRUE, cur |-> 0,
             eng |-> eng, handed |-> <<>>]
       ELSE [queue |-> Tail(q), speaking |-> TRUE, changed |-> TRUE,
             cur |-> NextItem(q), eng |-> Append(eng, NextItem(q)),
             handed |-> <<NextItem(q)>>]

\* the state a processNextInQueue call leaves, where cur is
\* currentUtteranceRef.current before it
AfterProcessNext(p, cur) ==
  /\ utteranceQueueRef' = p.queue
  /\ isSpeakingRef' = p.speaking
  /\ currentUtteranceRef' = IF p.changed THEN p.cur ELSE cur
  /\ engineQueue' = p.eng
  /\ handedLog' = handedLog \o p.handed

\* speak(text)
speak(text, throws) ==
  /\ LET n == IF trim(text) = <<>> THEN 0 ELSE Len(SpeechChunks(text))
         q == utteranceQueueRef \o [i \in 1..n |-> nextChunk + i - 1]
     IN /\ nextChunk + n - 1 <= MaxChunks
        /\ nextChunk' = nextChunk + n
        /\ unvoiced' = IF synVariant = "single" /\ ~voiceRef
                       THEN unvoiced \cup {nextChunk + i - 1 : i \in 1..n}
                       ELSE unvoiced
        /\ IF trim(text) # <<>> /\ ~isSpeakingRef
           THEN AfterProcessNext(ProcessNext(q, FALSE, engineQueue, throws),
                                 currentUtteranceRef)
           ELSE /\ utteranceQueueRef' = q
                /\ UNCHANGED <<isSpeakingRef, currentUtteranceRef, engineQueue,
                               handedLog>>
  /\ synOp' = "speak"
  /\ UNCHANGED <<synVariant, voiceRef, halted, stoppedBelow>>
  /\ UNCHANGED exceptSyn

\* stop(): synth.cancel() removes every utterance from the engine, each of
\* which is sent its event later
stop ==
  /\ halted' = halted \cup {engineQueue[i] : i \in 1..Len(engineQueue)}
  /\ engineQueue' = <<>>
  /\ utteranceQueueRef' = ClearedQueue(utteranceQueueRef)
  /\ isSpeakingRef' = FALSE
  /\ currentUtteranceRef' = 0
  /\ stoppedBelow' = nextChunk
  /\ synOp' = "stop"
  /\ UNCHANGED <<synVariant, voiceRef, handedLog, nextChunk, unvoiced>>
  /\ UNCHANGED exceptSyn

\* utterance.onend / utterance.onerror, the same statements
Settled(eng, throws) ==
  AfterProcessNext(ProcessNext(utteranceQueueRef, FALSE, eng, throws), 0)

\* the utterance being spoken ends: utterance.onend
UtterEnd(u, throws) ==
  /\ engineQueue # <<>> /\ u = Head(engineQueue)
  /\ Settled(Tail(engineQueue), throws)
  /\ synOp' = "end"
  /\ UNCHANGED <<synVariant, voiceRef, halted, nextChunk, stoppedBelow,
                 unvoiced>>
  /\ UNCHANGED exceptSyn

\* the utterance being spoken fails, or an utterance removed by cancel() is
\* sent its error event: utterance.onerror
UtterError(u, throws) ==
  /\ \/ /\ engineQueue # <<>> /\ u = Head(engineQueue)
        /\ Settled(Tail(engineQueue), throws)
        /\ UNCHANGED halted
     \/ /\ u \in halted
        /\ Settled(engineQueue, throws)
        /\ halted' = halted \ {u}
  /\ synOp' = "error"
  /\ UNCHANGED <<synVariant, voiceRef, nextChunk, stoppedBelow, unvoiced>>
  /\ UNCHANGED exceptSyn

\* speechSynthesis.onvoiceschanged: updateVoices / setVoice
VoicesChanged(found) ==
  /\ voiceRef' = found
  /\ synOp' = "voices"
  /\ UNCHANGED <<synVariant, utteranceQueueRef, isSpeakingRef, currentUtteranceRef,
                 engineQueue, halted, handedLog, nextChunk, stoppedBelow,
                 unvoiced>>
  /\ UNCHANGED exceptSyn

\* ------------------------------------- Generator Client: re-segmentation
\* The fragments of one request that is never cancelled, for the word-window
\* loop ("window") and the sentence loop ("sentence").

\* the characters of a decoded reply
ReplyChars == {"a", ".", " ", "|"}

RECURSIVE TextsUpTo(_)
TextsUpTo(n) ==
  IF n = 0 THEN {<<>>}
  ELSE LET S == TextsUpTo(n - 1)
       IN S \cup {Append(t, c) : t \in {x \in S : Len(x) = n - 1}, c \in ReplyChars}

\* the replies that pass the if (!text) check: word lists for the window
\* loop, texts for the sentence loop
SegReplies(v) ==
  IF v = "window" THEN SeqsUpTo(MaxReplyWords) \ {<<>>}
  ELSE TextsUpTo(MaxReplyChars) \ {<<>>}

\* text.replace(/([.!?])\s+/g, '$1|').split('|').filter(...).map(...)
Sentences(text) == TrimmedPieces(SplitBar(MarkSentences(text), <<>>))

\* One task of the loop over rest, to its next await or to onComplete:
\* the fragments passed to onChunk, what is left, and whether it awaits
SegTask(rest) ==
  IF segVariant = "window"
  THEN LET run == EmitLoop(rest, <<>>, 0, TRUE)
           tail == IF ~run.paused /\ run.cur # <<>> THEN <<run.cur>> ELSE <<>>
       IN [chunks |-> run.chunks \o tail, rest |-> run.words, paused |-> run.paused]
  ELSE IF rest = <<>>
       THEN [chunks |-> <<>>, rest |-> <<>>, paused |-> FALSE]
       ELSE [chunks |-> <<Head(rest)>>, rest |-> Tail(rest),
             paused |-> Len(rest) > 1]

SegRun(rest) ==
  LET t == SegTask(rest)
  IN /\ segOut' = segOut \o t.chunks
     /\ segRest' = t.rest
     /\ segPc' = IF t.paused THEN "pause" ELSE "done"
     /\ UNCHANGED <<segVariant, segReply>>
     /\ UNCHANGED exceptSeg

\* the network call answers with the reply: the loop's first task
SegFetchReply ==
  /\ segPc = "fetch"
  /\ SegRun(IF segVariant = "window" THEN segReply ELSE Sentences(segReply))

\* the pause after a fragment is over
SegPauseEnd ==
  /\ segPc = "pause"
  /\ SegRun(segRest)

\* ------------------------------------------- Turn Controller: History
\* The retry hook's two appends, each followed by trimChatHistory: the user
\* message of an accepted transcript and the assistant message of a
\* completed reply.
HistoryPush(role) ==
  /\ histPushed < MaxPushes
  /\ histPushed' = histPushed + 1
  /\ chatHistory' = PushHistory(chatHistory, role, histPushed + 1)
  /\ UNCHANGED <<variant, hasKey, isLoading, error, processing, retryAttempts,
                 retryTimeoutRef, retryTimers, streamBuffer, streamTimer,
                 activeRequest, aborted, req, nextReq, nextInput, lastOp,
                 afterCancel>>
  /\ UNCHANGED <<recVars, rstVars, synVars, segVars, tagVars, micVars, brgVars>>

\* clearHistory
clearHistory ==
  /\ chatHistory' = <<>>
  /\ histPushed' = 0
  /\ UNCHANGED <<variant, hasKey, isLoading, error, processing, retryAttempts,
                 retryTimeoutRef, retryTimers, streamBuffer, streamTimer,
                 activeRequest, aborted, req, nextReq, nextInput, lastOp,
                 afterCancel>>
  /\ UNCHANGED <<recVars, rstVars, synVars, segVars, tagVars, micVars, brgVars>>

\* ------------------------------------- Turn Controller: language tagging
\* Texts are sequences of code points.

\* 'a', '-', and the code points at and next to the ends of the Devanagari
\* block: U+08FF, U+0900, U+097F, U+0980
CodePoints == {97, 45, 2303, 2304, 2431, 2432}

RECURSIVE FragmentsUpTo(_)
FragmentsUpTo(n) ==
  IF n = 0 THEN {<<>>}
  ELSE LET S == FragmentsUpTo(n - 1)
       IN S \cup {Append(t, c) : t \in {x \in S : Len(x) = n - 1}, c \in CodePoints}

\* the chunks handed to onChunk
Fragments == FragmentsUpTo(MaxFragmentLen)

Languages == {"en-US", "hi-IN"}

\* a test for /[\u0900-\u09FF]/
isHindiTextWide(text) == \E i \in 1..Len(text) : text[i] >= 2304 /\ text[i] <= 2559

\* isHindiText: /[\u0900-\u097F]/.test(text)
isHindiText(text) == \E i \in 1..Len(text) : text[i] >= 2304 /\ text[i] <= 2431

\* errorInLanguage, by the code points of its first word: U+0915 U+094D
\* U+0937 U+092E U+093E, or "Sorry"
Apology(inputLanguage) ==
  IF inputLanguage = "hi-IN" THEN <<2325, 2381, 2359, 2350, 2366>>
  ELSE <<83, 111, 114, 114, 121>>

TagIdle ==
  /\ sink = [text |-> <<>>, language |-> "none"]
  /\ detected = [text |-> <<>>, hindi |-> FALSE]

\* the chunk callback of the bilingual hook
StreamChunk(chunk) ==
  /\ sink' = [text |-> chunk,
              language |-> IF isHindiText(chunk) THEN "hi-IN" ELSE "en-US"]
  /\ UNCHANGED detected
  /\ UNCHANGED exceptTag

\* the error callback of the bilingual hook, for a transcript in inputLanguage
StreamApology(inputLanguage) ==
  /\ sink' = [text |-> Apology(inputLanguage), language |-> inputLanguage]
  /\ UNCHANGED detected
  /\ UNCHANGED exceptTag

\* ------------------------------------------------- language detection
\* utils/languageDetection.ts, on texts as sequences of code points.

\* 'a', '-', '9', ' ', and code points at the ends of the ranges of the
\* utility's pattern: U+0900, U+097F, U+0980, U+A8E0
DetectCodePoints == {97, 45, 57, 32, 2304, 2431, 2432, 43232}

RECURSIVE DetectTextsUpTo(_)
DetectTextsUpTo(n) ==
  IF n = 0 THEN {<<>>}
  ELSE LET S == DetectTextsUpTo(n - 1)
       IN S \cup {Append(t, c) : t \in {x \in S : Len(x) = n - 1},
                                 c \in DetectCodePoints}

\* the texts handed to the utility
DetectTexts == DetectTextsUpTo(MaxDetectLen)

\* the class [\u0900-\u097F\u0980-\u09FF-\uA8E0-\uA8FF]: the ranges U+0900 to
\* U+097F and U+0980 to U+09FF, the '-' that follows a complete range and
\* so stands for itself, and the range U+A8E0 to U+A8FF
MatchesDevanagariRange(c) ==
  \/ c >= 2304 /\ c <= 2431
  \/ c >= 2432 /\ c <= 2559
  \/ c = 45
  \/ c >= 43232 /\ c <= 43263

\* isHindiText of the utility: devanagariRange.test(text)
isHindiTextUtility(text) ==
  \E i \in 1..Len(text) : MatchesDevanagariRange(text[i])

\* a caller applies the utility to a text
DetectText(text) ==
  /\ detected' = [text |-> text, hindi |-> isHindiTextUtility(text)]
  /\ UNCHANGED sink
  /\ UNCHANGED exceptTag

\* --------------------------------------------------------- specifications
\* Each specification follows one component; the others are mounted and idle.

TurnIdle == TurnInit("bilingual") /\ hasKey

RecIdle == supported = TRUE /\ RecInit

SynIdle == SynInit("bilingual") /\ voiceRef = TRUE

\* the bilingual hook
Init ==
  /\ TurnInit("bilingual")
  /\ RecIdle
  /\ SynIdle
  /\ SegIdle
  /\ TagIdle
  /\ HistIdle
  /\ MicIdle
  /\ BrgIdle

Next ==
  \/ UserInput
  \/ cancelResponse
  \/ GeneratorNext

Spec == Init /\ [][Next]_vars

\* the retry hook
InitRetry ==
  /\ TurnInit("retry")
  /\ RecIdle
  /\ SynIdle
  /\ SegIdle
  /\ TagIdle
  /\ HistIdle
  /\ MicIdle
  /\ BrgIdle

NextRetry ==
  \/ UserInput
  \/ cancelResponse
  \/ GeneratorNext
  \/ \E t \in Requests : RetryTimerFire(t)
  \/ StreamTimerFire

SpecRetry == InitRetry /\ [][NextRetry]_vars

\* the recognizer hook, mounted beside an idle turn controller
InitRecognizer ==
  /\ TurnIdle
  /\ supported \in BOOLEAN /\ RecInit
  /\ SynIdle
  /\ SegIdle
  /\ TagIdle
  /\ HistIdle
  /\ MicIdle
  /\ BrgIdle

NextRecognizer ==
  \/ startListening
  \/ stopListening
  \/ resetTranscript
  \/ EffectRun
  \/ \E results \in ResultLists : ResultEvent(results)
  \/ \E e \in Engines : EndEvent(e)
  \/ \E e \in Engines : ErrorEvent(e)

SpecRecognizer == InitRecognizer /\ [][NextRecognizer]_vars

\* the restart-capable recognizer hook, mounted beside an idle turn
\* controller; its result handler touches none of the variables below
InitRestart ==
  /\ TurnIdle
  /\ supported \in BOOLEAN /\ RecInit
  /\ SynIdle
  /\ SegIdle
  /\ TagIdle
  /\ HistIdle
  /\ MicIdle
  /\ BrgIdle

NextRestart ==
  \/ startListeningRestart
  \/ stopListeningRestart
  \/ EffectRunRestart
  \/ \E e \in Engines : EndEventRestart(e)
  \/ \E e \in Engines : ErrorEventRestart(e)
  \/ \E older \in BOOLEAN : ReconnectTimer(older)

SpecRestart == InitRestart /\ [][NextRestart]_vars

\* the restart-capable hook with its result events and without engine errors,
\* whose handlers leave the transcripts alone
NextGate ==
  \/ startListeningRestart
  \/ stopListeningRestart
  \/ resetTranscript
  \/ EffectRunRestart
  \/ \E e \in Engines : EndEventRestart(e)
  \/ \E results \in GatedLists : ResultEventRestart(results)

SpecGate == InitRestart /\ [][NextGate]_vars

\* the microphone hook after its mount effect
InitMic ==
  /\ TurnIdle
  /\ RecIdle
  /\ SynIdle
  /\ SegIdle
  /\ TagIdle
  /\ HistIdle
  /\ MicInit
  /\ BrgIdle

NextMic ==
  \/ UserRequestAccess
  \/ GetUserMediaSettles
  \/ Acquired
  \/ \E ofHeld \in BOOLEAN : TrackEnded(ofHeld)
  \/ \E older \in BOOLEAN : MicRetryTimerFire(older)
  \/ \E env \in MicEnvs : EnvChange(env)
  \/ DeviceChangeSettles
  \/ MicUnmount

SpecMic == InitMic /\ [][NextMic]_vars

\* the microphone hook with the browser's scheduling: a pending getUserMedia
\* or enumerateDevices call settles and a pending retry timer fires
MicContinuation ==
  \/ GetUserMediaSettles
  \/ Acquired
  \/ DeviceChangeSettles
  \/ \E older \in BOOLEAN : MicRetryTimerFire(older)

\* while one of them is pending, one of them runs in the end
MicFairness == WF_vars(MicContinuation)

SpecMicFair == InitMic /\ [][NextMic]_vars /\ MicFairness

\* the audio-bridge client and its synthesizer, beside idle components
InitBridge ==
  /\ TurnIdle
  /\ RecIdle
  /\ SynIdle
  /\ SegIdle
  /\ TagIdle
  /\ HistIdle
  /\ MicIdle
  /\ BridgeInit

\* the socket client, with the hook only watching the connection
NextSocket ==
  \/ SocketOpen
  \/ SocketClose
  \/ \E throws \in BOOLEAN : ReconnectTimerFire(throws)
  \/ disconnect
  \/ checkConnection

SpecSocket == InitBridge /\ [][NextSocket]_vars

\* the synthesizer hook over a socket that opens and closes once
NextBridge ==
  \/ SocketOpen
  \/ SocketClose
  \/ checkConnection
  \/ \E t \in BridgeTexts : bridgeSpeak(t)
  \/ bridgeStop
  \/ BridgeTick
  \/ BridgeTimerFire

SpecBridge == InitBridge /\ [][NextBridge]_vars

\* the bilingual hook (useSpeechSynthesis.ts) and the single-voice hook
SynVariants == {"bilingual", "single"}

\* either synthesizer hook, mounted beside an idle turn controller
InitSynth ==
  /\ TurnIdle
  /\ RecIdle
  /\ \E v \in SynVariants : SynInit(v)
  /\ SegIdle
  /\ TagIdle
  /\ HistIdle
  /\ MicIdle
  /\ BrgIdle

NextSynth ==
  \/ \E text \in SpeakTexts, throws \in BOOLEAN : speak(text, throws)
  \/ stop
  \/ \E u \in Chunks, throws \in BOOLEAN : UtterEnd(u, throws)
  \/ \E u \in Chunks, throws \in BOOLEAN : UtterError(u, throws)
  \/ \E found \in BOOLEAN : VoicesChanged(found)

SpecSynth == InitSynth /\ [][NextSynth]_vars

\* a reply arrives for a request that is never cancelled
InitSegment ==
  /\ TurnIdle
  /\ RecIdle
  /\ SynIdle
  /\ segVariant \in {"window", "sentence"}
  /\ segReply \in SegReplies(segVariant)
  /\ segRest = <<>>
  /\ segOut = <<>>
  /\ segPc = "fetch"
  /\ TagIdle
  /\ HistIdle
  /\ MicIdle
  /\ BrgIdle

NextSegment ==
  \/ SegFetchReply
  \/ SegPauseEnd

SpecSegment == InitSegment /\ [][NextSegment]_vars

\* the bilingual hook's callbacks deliver fragments to the stream sink
InitTag ==
  /\ TurnIdle
  /\ RecIdle
  /\ SynIdle
  /\ SegIdle
  /\ TagIdle
  /\ HistIdle
  /\ MicIdle
  /\ BrgIdle

NextTag ==
  \/ \E chunk \in Fragments : StreamChunk(chunk)
  \/ \E inputLanguage \in Languages : StreamApology(inputLanguage)

SpecTag == InitTag /\ [][NextTag]_vars

\* the isHindiText utility is applied to texts
NextDetect == \E text \in DetectTexts : DetectText(text)

SpecDetect == InitTag /\ [][NextDetect]_vars

\* utterances are appended to the retry hook's History
InitHistory ==
  /\ TurnInit("retry") /\ hasKey
  /\ RecIdle
  /\ SynIdle
  /\ SegIdle
  /\ TagIdle
  /\ HistIdle
  /\ MicIdle
  /\ BrgIdle

NextHistory ==
  \/ \E role \in {"user", "assistant"} : HistoryPush(role)
  \/ clearHistory

SpecHistory == InitHistory /\ [][NextHistory]_vars

\* ------------------------------------------------------------- properties

\* the request of the turn accepted last
CurrentTurn == nextReq - 1

\* issued, neither finished nor aborted
InFlight == {r \in Requests : req[r].pc \in {"fetch", "pause"} /\ r \notin aborted}

\* C1: while processing is true, a call of processUserInput is dropped: it
\* starts no generation request, appends nothing to History and streams
\* nothing.
C1_BusyCallDropped ==
  [][(processing /\ lastOp'.op \in {"accepted", "dropped"})
       => /\ lastOp' = Op("dropped", 0, 0, 0)
          /\ UNCHANGED <<req, nextReq, activeRequest, aborted, chatHistory,
                         processing, isLoading, error>>]_vars

C1_Witness == lastOp.op = "dropped" /\ processing /\ req[1].pc = "pause"

\* C2: once generation A is cancelled and generation B started, no task of A
\* delivers a fragment to onChunk.
C2_NoFragmentAfterCancel ==
  \A a \in Requests :
    (lastOp.req = a /\ lastOp.chunks > 0 /\ a \in aborted) => nextReq <= a + 1

\* C3: at most one generation request is in flight.
C3_AtMostOneInFlight == Cardinality(InFlight) <= 1

\* C4: processing is reset only by cancelResponse or by the completion or
\* the error of the request of the current turn.
C4_ResetByOwnTurnOnly ==
  [][(processing /\ ~processing')
       => \/ lastOp'.op = "cancel"
          \/ lastOp'.op \in {"complete", "error"} /\ lastOp'.req = CurrentTurn]_vars

\* C5: no two assistant utterances are adjacent in History.
C5_NoAdjacentAssistant ==
  \A k \in 1..(Len(chatHistory) - 1) :
    ~(chatHistory[k].role = "assistant" /\ chatHistory[k + 1].role = "assistant")

\* C6: a request cancelled while its network call is pending ends without
\* invoking onChunk, onComplete or onError, surfaces no error and streams
\* nothing; a finished request invokes nothing more.
C6_CancelledPendingIsSilent ==
  [][\A r \in Requests :
       /\ (r \in aborted /\ req[r].pc = "fetch")
            => /\ req'[r].called = {}
               /\ req'[r].pc = "done"
                    => /\ error' = error
                       /\ processing' = processing
                       /\ lastOp'.chunks = 0 /\ lastOp'.streamed = 0
       /\ req[r].pc = "done" => req'[r] = req[r]]_vars

C6_Witness ==
  \E r \in Requests : r \in aborted /\ req[r].pc = "done" /\ req[r].called = {}

\* C7: from cancelResponse until the next accepted transcript, History does
\* not change.
C7_HistoryFrozenAfterCancel ==
  [][afterCancel' => chatHistory' = chatHistory]_vars

\* the generateGeminiResponse invocations made for transcript t
Attempts(t) == {r \in Requests : req[r].pc # "idle" /\ req[r].input = t}

\* those of them started by the retry timer
Retries(t) == {r \in Attempts(t) : req[r].retry}

\* every attempt made for t has ended in the error callback
AllFailed(t) ==
  /\ Attempts(t) # {}
  /\ \A r \in Attempts(t) : req[r].pc = "done" /\ req[r].called = {"onError"}

\* one transcript has been handed over, with retryAttempts 0, and
\* cancelResponse has not run since
SingleTurn == nextInput = 2 /\ ~afterCancel

\* C8: when every attempt of a turn that started with a fresh retry counter
\* fails, a retry is scheduled until MAX_RETRY_ATTEMPTS retries were made;
\* after the last failure nothing is scheduled and the hook is idle with the
\* error set.
C8_RetryCap ==
  (SingleTurn /\ AllFailed(1))
    => /\ Cardinality(Retries(1)) <= MAX_RETRY_ATTEMPTS
       /\ Cardinality(Retries(1)) < MAX_RETRY_ATTEMPTS => retryTimers # {}
       /\ Cardinality(Retries(1)) = MAX_RETRY_ATTEMPTS
            => retryTimers = {} /\ ~processing /\ ~isLoading /\ error # "null"

C8_Witness ==
  /\ hasKey /\ SingleTurn /\ AllFailed(1)
  /\ Cardinality(Retries(1)) = MAX_RETRY_ATTEMPTS
  /\ retryTimers = {} /\ ~processing

\* a network call is unsettled or a pause timer is set
GenPending == \E r \in Requests : req[r].pc \in {"fetch", "pause"}

\* GenPending is the enabling condition of GeneratorNext
GenPendingIsEnabled == GenPending <=> ENABLED <<GeneratorNext>>_vars

\* The bilingual hook with the browser's scheduling: while a network call is
\* unsettled or a pause timer is set, one of these continuations runs in the
\* end.  Every network call settling and every timer firing implies it.
\* This is WF_vars(GeneratorNext), with the enabling condition of
\* GeneratorNext written as the state predicate GenPending.
Fairness == []<>(~GenPending) \/ []<><<GeneratorNext>>_vars

SpecFair == Init /\ [][Next]_vars /\ Fairness

\* C9: every accepted transcript leads to Idle: processing and isLoading
\* false.
C9_TurnEndsIdle == processing ~> (~processing /\ ~isLoading)

C9_Witness ==
  /\ lastOp.op = "complete" /\ lastOp.req = CurrentTurn
  /\ ~processing /\ ~isLoading /\ aborted = {}

\* an event's callbacks as the contract has them: the final texts that are
\* not empty, less each one equal to the one before it; prev is the text
\* processed last before the event
RECURSIVE Squeeze(_, _)
Squeeze(finals, prev) ==
  IF finals = <<>> THEN <<>>
  ELSE IF Head(finals) = <<>> \/ Head(finals) = prev
       THEN Squeeze(Tail(finals), prev)
       ELSE <<Head(finals)>> \o Squeeze(Tail(finals), Head(finals))

\* C10: a final result whose trimmed text equals the final result processed
\* immediately before it does not invoke onTranscriptComplete again: the
\* same final text fed twice in a row fires the callback exactly once.
C10_SameFinalFiresOnce ==
  [][recOp'.op = "result"
       => recOp'.fired = Squeeze(recOp'.finals, lastProcessedResultRef)]_vars

C10_Witness ==
  /\ recOp.op = "result"
  /\ recOp.finals = <<<<"a">>, <<"a">>>>
  /\ recOp.fired = <<<<"a">>>>

\* C11: the synthesizer hands at most one utterance at a time to the speech
\* engine: the engine never holds two utterances that have neither ended,
\* errored nor been cancelled.
C11_OneUtteranceAtATime == Len(engineQueue) <= 1

\* C12: chunks are handed to the speech engine in the order in which they
\* were enqueued, and none is handed over twice.
C12_HandedInFifoOrder ==
  \A i, j \in 1..Len(handedLog) : i < j => handedLog[i] < handedLog[j]

C12_Witness ==
  /\ handedLog = <<1, 2, 3>>
  /\ synOp = "end"
  /\ utteranceQueueRef # <<>>

\* the chunks handed to the engine by the step
HandedNow == {handedLog'[i] : i \in (Len(handedLog) + 1)..Len(handedLog')}

\* C13: stop() leaves the queue empty and the speaking flag false, a second
\* stop() changes nothing, and no chunk enqueued before a stop() is handed to
\* the speech engine after it.
C13_StopClearsQueue ==
  [][/\ synOp' = "stop"
          => /\ utteranceQueueRef' = <<>>
             /\ ~isSpeakingRef'
             /\ currentUtteranceRef' = 0
             /\ engineQueue' = <<>>
             /\ synOp = "stop" => UNCHANGED synVars
     /\ \A c \in HandedNow : c >= stoppedBelow']_vars

C13_Witness ==
  /\ stoppedBelow = 3
  /\ handedLog = <<1, 3>>

\* text.split(/\s+/) less its empty strings, with cur the word being read
RECURSIVE WordsOfText(_, _)
WordsOfText(t, cur) ==
  IF t = <<>> THEN (IF cur = <<>> THEN <<>> ELSE <<cur>>)
  ELSE IF Head(t) = " "
       THEN (IF cur = <<>> THEN <<>> ELSE <<cur>>) \o WordsOfText(Tail(t), <<>>)
       ELSE WordsOfText(Tail(t), Append(cur, Head(t)))

\* the words of a reply or of a fragment
WordsIn(x) == IF segVariant = "window" THEN x ELSE WordsOfText(x, <<>>)

\* the words of the fragments joined by single spaces
RECURSIVE JoinedWords(_)
JoinedWords(frags) ==
  IF frags = <<>> THEN <<>>
  ELSE WordsIn(Head(frags)) \o JoinedWords(Tail(frags))

\* C14: the fragments of a reply, in emission order and joined by single
\* spaces, hold every word of the reply exactly once in the original order.
C14_FragmentsReproduceReply ==
  segPc = "done" /\ segReply # <<>> => JoinedWords(segOut) = WordsIn(segReply)

\* a fragment whose last word ends with a sentence terminator
EndsAtBoundary(f) ==
  /\ f # <<>>
  /\ IF segVariant = "window" THEN EndsSentence(f[Len(f)])
     ELSE IsTerminator(f[Len(f)])

\* C15: every fragment but the last one of the reply ends at a sentence
\* boundary.
C15_FragmentsEndAtBoundary ==
  \A k \in 1..(Len(segOut) - 1) : EndsAtBoundary(segOut[k])

\* a code point of the Devanagari block U+0900..U+097F
Devanagari(c) == c \in (9 * 256)..(9 * 256 + 127)

\* C16: a fragment delivered to the stream sink is tagged hi-IN if and only
\* if it holds a Devanagari code point, and en-US otherwise.
C16_TaggedByScript ==
  sink.language # "none"
    => /\ sink.language \in {"hi-IN", "en-US"}
       /\ sink.language = "hi-IN" <=> \E i \in 1..Len(sink.text) : Devanagari(sink.text[i])

C16_Witness == sink = [text |-> <<97, 2431>>, language |-> "hi-IN"]

\* C17: History holds at most MAX_HISTORY_LENGTH entries; after more than
\* that many appends it holds exactly that many: the first one ever appended,
\* then the MAX_HISTORY_LENGTH - 1 appended last, in the order of appending.
C17_HistoryCap ==
  /\ Len(chatHistory) <= MAX_HISTORY_LENGTH
  /\ (histPushed > 0 /\ histPushed <= MAX_HISTORY_LENGTH)
       => /\ Len(chatHistory) = histPushed
          /\ \A k \in 1..histPushed : chatHistory[k].content = k
  /\ histPushed > MAX_HISTORY_LENGTH
       => /\ Len(chatHistory) = MAX_HISTORY_LENGTH
          /\ chatHistory[1].content = 1
          /\ \A k \in 2..MAX_HISTORY_LENGTH :
               chatHistory[k].content = histPushed - MAX_HISTORY_LENGTH + k

C17_Witness ==
  /\ histPushed = MAX_HISTORY_LENGTH + 2
  /\ Len(chatHistory) = MAX_HISTORY_LENGTH
  /\ chatHistory[1].content = 1
  /\ chatHistory[2].content = 4

\* C19: stopListening leaves no engine instance running, the interim
\* transcript empty and isListening false, and from then until startListening
\* no result event invokes onTranscriptComplete.
C19_StopStopsEngine ==
  [][/\ recOp'.op = "stop"
          => /\ \A e \in Engines : engine'[e] # "running"
             /\ interimTranscript' = <<>>
             /\ ~isListening'
     /\ (afterStop /\ recOp'.op = "result") => recOp'.fired = <<>>]_vars

\* C20: while isListening is true, the natural end of an engine leads to its
\* being started again; while isListening is false, an end event does not
\* start the engine again.
C20_RestartWhileListening ==
  [][recOp'.op = "end"
       => /\ (isListening /\ recOp'.natural) => recOp'.started
          /\ ~isListening => ~recOp'.started]_vars

\* C18: within one listening session of the restart-capable recognizer at
\* most MAX_RESTART_ATTEMPTS restarts are attempted because of errors, and the
\* error that finds the attempts used up stops the recognizer: isListening
\* false, the engine released and the error surfaced.
C18_BoundedRestarts ==
  [][/\ errorRestarts' <= MAX_RESTART_ATTEMPTS
     /\ (recOp'.op = "error" /\ isListeningRef
           /\ restartAttemptsRef = MAX_RESTART_ATTEMPTS)
          => /\ ~isListening'
             /\ recognizerRef' = 0
             /\ recError' # "null"]_vars

\* the final results of an event the hook treats as new, in order
RECURSIVE NewFinals(_, _)
NewFinals(finals, prev) ==
  IF finals = <<>> THEN <<>>
  ELSE IF Head(finals).text = <<>> \/ Head(finals).text = prev
       THEN NewFinals(Tail(finals), prev)
       ELSE <<Head(finals)>> \o NewFinals(Tail(finals), Head(finals).text)

RECURSIVE Confident(_)
Confident(finals) ==
  IF finals = <<>> THEN <<>>
  ELSE IF Head(finals).confidence > CONFIDENCE_THRESHOLD
       THEN <<Head(finals).text>> \o Confident(Tail(finals))
       ELSE Confident(Tail(finals))

\* C21: in the confidence-gated recognizer a new final result whose
\* confidence is not above CONFIDENCE_THRESHOLD does not invoke
\* onTranscriptComplete, and the last new final result of an event becomes
\* the transcript whatever its confidence.
C21_LowConfidenceShownNotFired ==
  [][recOp'.op = "result"
       => LET new == NewFinals(recOp'.finals, lastProcessedResultRef)
          IN /\ recOp'.fired = Confident(new)
             /\ new # <<>> => transcript' = new[Len(new)].text]_vars

C21_Witness ==
  /\ recOp.op = "result"
  /\ recOp.finals = <<[text |-> <<"a">>, confidence |-> CONFIDENCE_THRESHOLD]>>
  /\ recOp.fired = <<>>
  /\ transcript = <<"a">>

\* C22: with no API key every accepted turn surfaces its error in the task
\* that accepted it, no network call is issued, no retry timer is scheduled
\* and no turn is a retry.
C22_MissingKeyIsTerminal ==
  ~hasKey
    => /\ \A r \in Requests : req[r].pc \notin {"fetch", "pause"} /\ ~req[r].retry
       /\ retryTimers = {}
       /\ lastOp.op = "accepted"
            => error = "Gemini API key not found" /\ ~processing /\ ~isLoading

\* request r's generator call fails in this step: its network call, not
\* aborted, settles without a reply, or it finds no API key
GeneratorError(r) ==
  /\ req'[r].pc = "done"
  /\ \/ req[r].pc = "idle"
     \/ req[r].pc = "fetch" /\ r \notin aborted /\ lastOp'.op # "complete"

AssistantCount(h) == Cardinality({i \in 1..Len(h) : h[i].role = "assistant"})

\* C23: a generator error of an accepted turn streams exactly one apology
\* and no chunk, records the error message, resets processing and isLoading,
\* and appends no assistant reply to History.
C23_ErrorStreamsOneApology ==
  [][\A r \in Requests :
       GeneratorError(r)
         => /\ lastOp'.req = r
            /\ lastOp'.streamed = 1 /\ lastOp'.chunks = 0
            /\ "onError" \in req'[r].called /\ "onComplete" \notin req'[r].called
            /\ error' # "null"
            /\ ~processing' /\ ~isLoading'
            /\ AssistantCount(chatHistory') = AssistantCount(chatHistory)]_vars

C23_Witness ==
  /\ lastOp.op = "error" /\ lastOp.streamed = 1
  /\ req[lastOp.req].called = {"onError"}
  /\ error = "Failed to get response from Gemini API: 500"
  /\ ~processing /\ ~isLoading
  /\ AssistantCount(chatHistory) = 0 /\ Len(chatHistory) = 1

\* C24: a permission-denied or device-not-found failure of getUserMedia
\* schedules no retry timer, and device-not-found sets isAvailable to false.
C24_TerminalFailuresNotRetried ==
  [][(micOp'.op = "failed" /\ micOp'.failure \in {"denied", "notfound"})
       => /\ ~micOp'.scheduled
          /\ micTimer' = micTimer /\ micStale' = micStale
          /\ micOp'.failure = "notfound" => ~isAvailable']_vars

\* C25: a failed acquisition schedules a retry after MIC_RETRY_DELAY while
\* fewer than MIC_MAX_RETRY_ATTEMPTS retries were scheduled since the last
\* successful acquisition, and none after that; a successful acquisition
\* resets the counter.
C25_RetryCap ==
  [][/\ micAttempts' <= MIC_MAX_RETRY_ATTEMPTS
     /\ micOp'.op = "failed"
          => IF micAttempts < MIC_MAX_RETRY_ATTEMPTS
             THEN /\ micOp'.scheduled /\ micOp'.delay = MIC_RETRY_DELAY
                  /\ micAttempts' = micAttempts + 1
                  /\ micTimer'
             ELSE /\ ~micOp'.scheduled
                  /\ micAttempts' = micAttempts
                  /\ micTimer' = micTimer /\ micStale' = micStale
     /\ micOp'.op = "acquired" => micAttempts' = 0
     /\ micOp'.op \notin {"failed", "acquired"} => micAttempts' = micAttempts]_vars

C25_Witness ==
  /\ micOp.op = "failed" /\ ~micOp.scheduled
  /\ micAttempts = MIC_MAX_RETRY_ATTEMPTS
  /\ ~micTimer /\ micStale = 0 /\ MicCalls = 0

\* an acquisition is in flight or scheduled: a requestAccess call, a retry
\* timer, or a devicechange being handled
MicAttempting == MicCalls > 0 \/ micTimer \/ micStale > 0

\* C26: when a track of the held stream ends the stream is released and
\* requestAccess runs again; from then on, while an acquisition is in flight
\* or scheduled (a devicechange raises one), a live stream is held and
\* exposed again unless getUserMedia stops answering with a stream or the
\* hook is unmounted.
C26_TrackEndReacquires ==
  /\ [][micOp'.op = "ended"
          => ~held' /\ ~deviceName' /\ gumPending' = gumPending + 1]_vars
  /\ (reacquire /\ micMounted /\ MicAttempting)
       ~> (~reacquire /\ held) \/ micEnv # "ok" \/ ~micMounted

C26_Witness ==
  /\ micOp.op = "acquired" /\ micOp.restored
  /\ held /\ micMounted /\ micError = "null"

\* C29: in the single-voice hook, the chunks of a speak call made while no
\* voice is set are never handed to the speech engine: not by the call, and
\* not by any later task.
C29_NoVoiceSpeakSkipped ==
  \A i \in 1..Len(handedLog) : handedLog[i] \notin unvoiced

\* C27: at most maxReconnectAttempts connection attempts are made by the
\* reconnect timer without an open in between, the k-th of them by a timer
\* set with k times reconnectDelay, and an open sets the counter to 0.
C27_ReconnectCap ==
  /\ ws.sinceOpen <= maxReconnectAttempts
  /\ ws.op.op = "connect" => ws.op.delay = ws.sinceOpen * reconnectDelay
  /\ ws.op.op = "open" => ws.reconnectAttempts = 0 /\ ws.sinceOpen = 0

\* the third attempt in a row has failed and no timer is set
C27_Witness ==
  /\ ws.op.op = "close"
  /\ ws.readyState = "closed"
  /\ ws.sinceOpen = maxReconnectAttempts
  /\ ws.timer = 0

\* a phrase timer fires
PhraseTimerFires ==
  /\ bridge'.op = "phrase"
  /\ bridge'.timers # bridge.timers

\* C28: while the socket is open, every phrase timer of a long text sends
\* its phrase, so that the phrases are sent in order and none is dropped.
C28_EveryPhraseSent ==
  [][(PhraseTimerFires /\ isConnected)
       => ws'.sent = Append(ws.sent, [call |-> bridge.timers[DueIndex].call,
                                      text |-> bridge.timers[DueIndex].text])]_vars

\* C30: nothing is sent for a speak call that was made before the last
\* stop().
C30_NoSendAfterStop ==
  [][ws'.sent # ws.sent
       => ws'.sent[Len(ws'.sent)].call > bridge'.stopMark]_vars

\* C39: once disconnect() has been called, no task of the client sets a
\* reconnect timer or calls connect(): the close event that the disconnect
\* causes is not followed by a reconnect.
C39_NoReconnectAfterDisconnect ==
  [][(ws.disconnected /\ ws' # ws)
       => /\ ws'.op.op # "connect"
          /\ ws'.op.op = "close" => ws'.timer = 0]_vars

\* a code point of the Devanagari blocks, U+0900 to U+097F and U+A8E0 to
\* U+A8FF
IsDevanagari(c) == (c >= 2304 /\ c <= 2431) \/ (c >= 43232 /\ c <= 43263)

\* C40: the utility isHindiText returns true exactly for the texts that
\* hold a Devanagari character; Latin letters, digits, spaces and ASCII
\* punctuation alone give false.
C40_TrueExactlyForDevanagari ==
  detected.hindi <=> \E i \in 1..Len(detected.text) : IsDevanagari(detected.text[i])

\* C31: while the request started last is unfinished and nothing has
\* aborted it, the module's active token names it, so that
\* cancelActiveRequest() aborts it; the cleanup of an earlier, cancelled
\* request does not change that.
C31_TokenNamesLatestUnfinished ==
  (CurrentTurn \in InFlight) => activeRequest = CurrentTurn

\* the texts of a list are pairwise different
DistinctTexts(l) == \A i, j \in 1..Len(l) : l[i] = l[j] => i = j

\* text t is one of the list l
OneOf(t, l) == \E i \in 1..Len(l) : l[i] = t

\* C32: within one listening session whose result events carry the
\* cumulative list of results, a final result that a result event passed to
\* the completion callback is not passed to it again by the next result
\* event.  Stated for two result events in a row, the second one carrying
\* the final results of the first, all with different texts, so that a text
\* names one result.
C32_FinalFiresOnce ==
  [][(/\ recOp.op = "result"
      /\ recOp'.op = "result"
      /\ Len(recOp.finals) <= Len(recOp'.finals)
      /\ SubSeq(recOp'.finals, 1, Len(recOp.finals)) = recOp.finals
      /\ DistinctTexts(recOp'.finals))
       => \A i \in 1..Len(recOp.fired) : ~OneOf(recOp.fired[i], recOp'.fired)]_vars

\* the user utterances of History that hold transcript i
UserUtterances(i) ==
  {k \in 1..Len(chatHistory) :
     chatHistory[k].role = "user" /\ chatHistory[k].content = i}

\* C33: each accepted transcript has exactly one user utterance in History,
\* also when its generation failed and the turn was retried automatically
\* (with an API key; History is below its cap here, so nothing was
\* trimmed).
C33_OneUserUtterancePerTranscript ==
  hasKey => \A i \in 1..(nextInput - 1) : Cardinality(UserUtterances(i)) = 1

\* C34: a retry scheduled for a failed transcript is not executed once a
\* newer transcript has been accepted: every turn that a retry timer starts
\* is for the transcript accepted last (with an API key).
C34_NoRetryOfOlderTranscript ==
  [][(/\ hasKey
      /\ nextReq' = nextReq + 1
      /\ req'[nextReq].retry)
       => req'[nextReq].input = nextInput - 1]_vars

\* C35: the retry counter is 0 whenever a turn that is not an automatic
\* retry begins, also after a turn whose retries were exhausted (with an
\* API key).
C35_FreshBudgetPerTranscript ==
  [][(/\ hasKey
      /\ nextReq' = nextReq + 1
      /\ ~req'[nextReq].retry)
       => retryAttempts = 0]_vars

\* the callbacks that end a request
Endings == {"onComplete", "onError"}

\* C36: for every request that was never cancelled, no ending callback is
\* invoked while it is unfinished, exactly one of onComplete and onError is
\* invoked by the task that finishes it, no callback is invoked after that,
\* and a request that ended with onError had no onChunk.
C36_OneEndingPerRequest ==
  [][\A r \in Requests :
       r \notin aborted'
         => /\ req'[r].pc # "done" => req'[r].called \cap Endings = {}
            /\ req'[r].pc = "done"
                 => /\ Cardinality(req'[r].called \cap Endings) = 1
                    /\ "onError" \in req'[r].called
                         => "onChunk" \notin req'[r].called
            /\ req[r].pc = "done" => req'[r] = req[r]]_vars

\* a cancelled request and two that were never cancelled: one ended with
\* onChunk calls and onComplete, the other with onError alone
C36_Witness ==
  /\ aborted # {}
  /\ \E r \in Requests \ aborted :
       req[r].pc = "done" /\ req[r].called = {"onChunk", "onComplete"}
  /\ \E r \in Requests \ aborted :
       req[r].pc = "done" /\ req[r].called = {"onError"}

\* no event of the speech engine is due, and the hook has the voice it
\* needs
SynthQuiet ==
  /\ engineQueue = <<>>
  /\ halted = {}
  /\ synVariant = "single" => voiceRef

\* C37: every chunk enqueued by speak is handed to the speech engine unless
\* stop() is called first, with no further speak call needed, also after
\* synth.speak threw and when the voice came after the chunk.  When no
\* engine event is due and a voice is set, nothing more happens without a
\* call, so every chunk enqueued since the last stop() has been handed over
\* by then.
C37_EveryChunkHanded ==
  SynthQuiet
    => \A c \in Chunks :
         (c >= stoppedBelow /\ c < nextChunk) => OneOf(c, handedLog)

\* C38: at most one microphone stream is live, and it is the one the hook
\* holds and exposes: no stream with unstopped tracks exists that streamRef
\* does not name, whatever the order of the requestAccess calls, their
\* settlements and cleanup.
C38_OneLiveStream == micMounted => leaked = 0

====
